---- MODULE Spec2Model ----
(***************************************************************************)
(* A model of shard-cache: the per-node LRU+TTL cache                      *)
(* (src/internal/cache/cache.go) and the rendezvous-hashing ring           *)
(* (src/unnamed/part_003, package ring).                                   *)
(*                                                                         *)
(* The cache is modelled at the level of its pointers: every Entry lives   *)
(* at an address, Prev/Next/head/tail hold addresses, and the four list    *)
(* mutations are translated statement by statement.  The index holds at    *)
(* most one entry per key and a removed entry is referenced by nothing, so *)
(* the entry of key k is given the address k; a removed entry is garbage   *)
(* and its cell is reset.                                                  *)
(***************************************************************************)
EXTENDS Integers, Sequences, FiniteSets, TLC

\* ------------------------------------------------------------------ bounds
MaxCap  == 2        \* capacities given to NewCache are -1..MaxCap
MaxTime == 3        \* the clock runs over 1..MaxTime

Keys       == {1, 2, 3}           \* the keys callers use
NumKeys    == Cardinality(Keys)
Values     == {"v1", "v2"}
TTLs       == {-1, 0, 1}          \* time.Duration arguments of Set
Capacities == -1..MaxCap
Procs      == {"g1", "g2"}        \* goroutines of the concurrent specification
MuValue    == "v1"                \* the value they write
MuTTLs     == {0, 1}              \* the ttls they write with

MaxN     == 3                     \* Owners is asked for -1..MaxN nodes
NodeIds  == {"n1", "n2", "n3"}    \* the node ids given to AddNode
Addrs    == {"a1"}                \* the addresses given to AddNode
RingKeys == {"k1", "k2"}          \* the keys given to Owners
Scores   == {0, 1, 2}             \* the values hash takes on RingKeys x NodeIds
Counts   == -1..MaxN
RingProcs == {"r1", "r2"}         \* goroutines that call one Ring
MuRingKey == "k1"                 \* the key they ask the owners of
Quorums   == {1, 2}               \* the read and write quorums of a Client
Written   == {"v1"}               \* the values a Client writes
ClientKey == "k1"                 \* the key the client's calls are about
MuCounts  == {1, MaxN}             \* the numbers of owners they ask for

Nil      == 0        \* the nil *Entry
Free     == "free"   \* c.mu held by no goroutine
NilVal   == "nil"    \* the nil []byte
ZeroTime == 0        \* time.Time{}: IsZero() holds of it and of no clock reading
NoNode   == "none"   \* r.nodes has no entry for the id
NoProc   == "nobody" \* r.mu has no writer

VARIABLES
  c,       \* the Cache object: entries, head, tail, capacity, size, and the Entry cells (mem)
  now,     \* the reading of time.Now()
  last,    \* the last operation called and what it returned; every action
           \* writes it, so a step with last'.op = "Set" is a step of that Set
  live,    \* per key: the value and expiry of its latest Set, while no eviction,
           \* Delete, Clear or expiry removal has dropped the key since
  run,     \* the keys inserted since the cache was last empty, while only
           \* Sets of distinct keys without expiry happened; Broken otherwise
  mu,      \* the goroutine that holds c.mu, or Free
  pc,      \* per goroutine: where it stands in its operation
  req,     \* per goroutine: the operation it runs
  snap,    \* per goroutine: the cache as it was when the goroutine got the lock
  nodes,   \* the Ring's map r.nodes: per node id its address, or NoNode
  score,   \* the hash: per key and node id the value of hash(key + id)
  owned,   \* the last Ring operation called, and for Owners its arguments and result
  again,   \* the result of the Owners call just before it, when that call had
           \* the same key, the same n and the same membership
  rmu,     \* the Ring's r.mu: the writer and the readers that hold it
  rpc,     \* per goroutine on the Ring: where it stands in its call
  rreq,    \* per goroutine on the Ring: its call, its locals n and scores, its result
  rmoved,  \* per goroutine on the Ring: the map was written since its call began
  conns,   \* the Client's c.connections: the node ids that have a connection
  store,   \* per node id: the Cache of the server at that node
  config,  \* the Client's readQuorum and writeQuorum, and whether hedgeTimeout > 0
  call,    \* the Client call in progress: its owners, the goroutines still to run,
           \* the results channel, the loop counter and successes
  ret,     \* what the last Client call did and returned, until the next call begins
  hedge,   \* one getFromNode call with hedgeTimeout > 0: its goroutines, its RPCs,
           \* hedgeCh, ctx and the time since the call began
  scene,   \* the run of the e2e scenario "quorum with node failure": the next
           \* step, the node stopped, and what the calls returned
  srv,     \* one Server: its configuration, the free permits of s.semaphore,
           \* s.cpuHistory, and the requests inside unaryInterceptor
  jobs,    \* per goroutine that shares the Client: the call it is in
  handles  \* per node id: the connections dialed to it that are not closed

cacheVars == <<c, now>>
histVars  == <<last, live, run>>
muVars    == <<mu, pc, req, snap>>
ringVars  == <<nodes, score, owned, again>>
lockVars  == <<rmu, rpc, rreq, rmoved>>
clientVars == <<conns, store, config, call, ret, hedge, scene, srv, jobs, handles>>
laterVars == <<lockVars, clientVars>>
vars      == <<c, now, last, live, run, mu, pc, req, snap, nodes, score, owned, again,
               rmu, rpc, rreq, rmoved, conns, store, config, call, ret, hedge, scene, srv,
               jobs, handles>>

\* ------------------------------------------------------------- the cache
\* type Entry
Entry(key, value, expiresAt) ==
  [Key |-> key, Value |-> value, ExpiresAt |-> expiresAt, Prev |-> Nil, Next |-> Nil]

\* a cell that holds no entry
Blank == Entry(Nil, NilVal, ZeroTime)

\* NewCache(capacity)
NewCache(capacity) ==
  [entries  |-> [k \in Keys |-> Nil],
   head     |-> Nil,
   tail     |-> Nil,
   capacity |-> capacity,
   size     |-> 0,
   mem      |-> [a \in Keys |-> Blank]]

\* an expiry test that fires at the expiry instant itself (!now.Before)
ExpiredAtExpiry(expiresAt, t) == expiresAt # ZeroTime /\ t >= expiresAt

\* !entry.ExpiresAt.IsZero() && now.After(entry.ExpiresAt)
Expired(expiresAt, t) == expiresAt # ZeroTime /\ t > expiresAt

\* the ExpiresAt that Set computes from ttl
ExpiryOf(ttl, t) == IF ttl > 0 THEN t + ttl ELSE ZeroTime

\* addToFront(entry)
addToFront(cc, e) ==
  LET c1 == [cc EXCEPT !.mem[e].Prev = Nil, !.mem[e].Next = cc.head]
      c2 == IF c1.head # Nil THEN [c1 EXCEPT !.mem[c1.head].Prev = e] ELSE c1
      c3 == [c2 EXCEPT !.head = e]
  IN  IF c3.tail = Nil THEN [c3 EXCEPT !.tail = e] ELSE c3

\* a moveToFront that leaves the entry where it is
moveToFrontStays(cc, e) == cc

\* moveToFront(entry)
moveToFront(cc, e) ==
  IF e = cc.head THEN cc
  ELSE
    LET c1 == IF cc.mem[e].Prev # Nil
              THEN [cc EXCEPT !.mem[cc.mem[e].Prev].Next = cc.mem[e].Next] ELSE cc
        c2 == IF c1.mem[e].Next # Nil
              THEN [c1 EXCEPT !.mem[c1.mem[e].Next].Prev = c1.mem[e].Prev] ELSE c1
        c3 == IF e = c2.tail THEN [c2 EXCEPT !.tail = c2.mem[e].Prev] ELSE c2
    IN  addToFront(c3, e)

\* removeEntry that unlinks the entry but leaves c.tail alone
removeEntryKeepsTail(cc, e) ==
  LET c1 == [cc EXCEPT !.entries[cc.mem[e].Key] = Nil]
      c2 == IF c1.mem[e].Prev # Nil
            THEN [c1 EXCEPT !.mem[c1.mem[e].Prev].Next = c1.mem[e].Next]
            ELSE [c1 EXCEPT !.head = c1.mem[e].Next]
      c3 == IF c2.mem[e].Next # Nil
            THEN [c2 EXCEPT !.mem[c2.mem[e].Next].Prev = c2.mem[e].Prev]
            ELSE c2
  IN  [c3 EXCEPT !.size = c3.size - 1, !.mem[e] = Blank]

\* removeEntry(entry); the entry is garbage afterwards and its cell is reset
removeEntry(cc, e) ==
  LET c1 == [cc EXCEPT !.entries[cc.mem[e].Key] = Nil]
      c2 == IF c1.mem[e].Prev # Nil
            THEN [c1 EXCEPT !.mem[c1.mem[e].Prev].Next = c1.mem[e].Next]
            ELSE [c1 EXCEPT !.head = c1.mem[e].Next]
      c3 == IF c2.mem[e].Next # Nil
            THEN [c2 EXCEPT !.mem[c2.mem[e].Next].Prev = c2.mem[e].Prev]
            ELSE [c2 EXCEPT !.tail = c2.mem[e].Prev]
  IN  [c3 EXCEPT !.size = c3.size - 1, !.mem[e] = Blank]

\* an eviction that removes the head
evictHead(cc) == IF cc.head # Nil THEN removeEntry(cc, cc.head) ELSE cc

\* evictLRU()
evictLRU(cc) == IF cc.tail # Nil THEN removeEntry(cc, cc.tail) ELSE cc

\* a Get whose hit makes the entry permanent
GetRefreshes(cc, key, t) ==
  LET e == cc.entries[key] IN
  IF e = Nil THEN [c |-> cc, value |-> NilVal, found |-> FALSE]
  ELSE IF Expired(cc.mem[e].ExpiresAt, t)
       THEN [c |-> removeEntry(cc, e), value |-> NilVal, found |-> FALSE]
       ELSE [c |-> moveToFront([cc EXCEPT !.mem[e].ExpiresAt = ZeroTime], e),
             value |-> cc.mem[e].Value, found |-> TRUE]

\* Get(key): the cache afterwards and the pair returned
Get(cc, key, t) ==
  LET e == cc.entries[key] IN
  IF e = Nil THEN [c |-> cc, value |-> NilVal, found |-> FALSE]
  ELSE IF Expired(cc.mem[e].ExpiresAt, t)
       THEN [c |-> removeEntry(cc, e), value |-> NilVal, found |-> FALSE]
       ELSE [c |-> moveToFront(cc, e), value |-> cc.mem[e].Value, found |-> TRUE]

\* the branch without "existing.Value = value"
SetExistingKeepsValue(cc, key, value, ttl, t) ==
  LET e == cc.entries[key] IN
  moveToFront([cc EXCEPT !.mem[e].ExpiresAt = ExpiryOf(ttl, t)], e)

\* the branch without "else { existing.ExpiresAt = time.Time{} }"
SetExistingKeepsExpiry(cc, key, value, ttl, t) ==
  LET e == cc.entries[key] IN
  moveToFront([cc EXCEPT !.mem[e].Value = value,
                         !.mem[e].ExpiresAt = IF ttl > 0 THEN t + ttl ELSE @], e)

\* Set(key, value, ttl), the branch of a key that is in the index
SetExisting(cc, key, value, ttl, t) ==
  LET e == cc.entries[key] IN
  moveToFront([cc EXCEPT !.mem[e].Value = value,
                         !.mem[e].ExpiresAt = ExpiryOf(ttl, t)], e)

\* Set(key, value, ttl), the branch of a new key up to and including c.size++
SetInsert(cc, key, value, ttl, t) ==
  LET c1 == [cc EXCEPT !.mem[key] = Entry(key, value, ExpiryOf(ttl, t))]
      c2 == [c1 EXCEPT !.entries[key] = key]
      c3 == addToFront(c2, key)
  IN  [c3 EXCEPT !.size = c3.size + 1]

\* a Set that makes room by removing an expired entry when there is one
SetSweepsFirst(cc, key, value, ttl, t) ==
  IF cc.entries[key] # Nil THEN SetExisting(cc, key, value, ttl, t)
  ELSE LET c1 == SetInsert(cc, key, value, ttl, t)
           old == {k \in Keys : /\ k # key /\ c1.entries[k] # Nil
                                 /\ Expired(c1.mem[c1.entries[k]].ExpiresAt, t)}
       IN  IF c1.size <= c1.capacity THEN c1
           ELSE IF old # {} THEN removeEntry(c1, c1.entries[CHOOSE k \in old : TRUE])
           ELSE evictLRU(c1)

\* Set(key, value, ttl)
Set(cc, key, value, ttl, t) ==
  IF cc.entries[key] # Nil THEN SetExisting(cc, key, value, ttl, t)
  ELSE LET c1 == SetInsert(cc, key, value, ttl, t)
       IN  IF c1.size > c1.capacity THEN evictLRU(c1) ELSE c1

\* a Delete that drops the key from the index and leaves its entry linked
DeleteFromIndexOnly(cc, key) ==
  LET e == cc.entries[key] IN
  IF e = Nil THEN [c |-> cc, removed |-> FALSE]
  ELSE [c |-> [cc EXCEPT !.entries[key] = Nil, !.size = cc.size - 1], removed |-> TRUE]

\* Delete(key): the cache afterwards and the boolean returned
Delete(cc, key) ==
  LET e == cc.entries[key] IN
  IF e = Nil THEN [c |-> cc, removed |-> FALSE]
  ELSE [c |-> removeEntry(cc, e), removed |-> TRUE]

\* Clear()
Clear(cc) ==
  [cc EXCEPT !.entries = [k \in Keys |-> Nil], !.head = Nil, !.tail = Nil,
             !.size = 0, !.mem = [a \in Keys |-> Blank]]

\* Cleanup(): Go ranges over the map in an unspecified order, so every order of
\* the keys is possible; the set of (cache, removed) pairs the loop can end in
RECURSIVE CleanupFrom(_, _, _, _)
CleanupFrom(cc, todo, t, removed) ==
  IF todo = {} THEN {[c |-> cc, removed |-> removed]}
  ELSE UNION {
         LET e == cc.entries[k] IN
         IF e # Nil /\ Expired(cc.mem[e].ExpiresAt, t)
         THEN CleanupFrom(removeEntry(cc, e), todo \ {k}, t, removed + 1)
         ELSE CleanupFrom(cc, todo \ {k}, t, removed)
         : k \in todo }

\* a Cleanup that returns after the first entry it removes
CleanupStopsAfterOne(cc, t) ==
  LET due == {k \in Keys : cc.entries[k] # Nil /\ Expired(cc.mem[cc.entries[k]].ExpiresAt, t)}
  IN  IF due = {} THEN {[c |-> cc, removed |-> 0]}
      ELSE {[c |-> removeEntry(cc, cc.entries[k]), removed |-> 1] : k \in due}

Cleanup(cc, t) == CleanupFrom(cc, {k \in Keys : cc.entries[k] # Nil}, t, 0)

\* -------------------------------------------------------------- the ring
\* NewRing(): an empty map
NewRing == [id \in NodeIds |-> NoNode]

\* an AddNode that leaves a node that is in the map as it is
AddNodeOnce(ns, id, addr) == IF ns[id] # NoNode THEN ns ELSE [ns EXCEPT ![id] = addr]

\* r.nodes[id] = &Node{ID: id, Addr: addr}
AddNode(ns, id, addr) == [ns EXCEPT ![id] = addr]

\* delete(r.nodes, id)
RemoveNode(ns, id) == [ns EXCEPT ![id] = NoNode]

\* the ids of the map's entries
Members(ns) == {id \in NodeIds : ns[id] # NoNode}

\* NodeCount(): len(r.nodes)
NodeCount(ns) == Cardinality(Members(ns))

\* GetNodes(): the nodes (here their ids) in the order of one iteration of
\* the map, which is any order
GetNodes(ns) ==
  {s \in [1..NodeCount(ns) -> Members(ns)] : \A x \in Members(ns) : \E i \in 1..NodeCount(ns) : s[i] = x}

\* r.hash(key + id): the first eight bytes of an MD5 digest, as a uint64.  The
\* digest is not computed: score is any one function on RingKeys x NodeIds, the
\* same for every call, and two ids may have the same score for a key, as two
\* inputs of a 64-bit hash may.
hash(key, id) == score[key][id]

\* what sort.Slice can leave of the scores appended in the map's iteration
\* order: every order of the ids with no score below a later one.  Ids with
\* the same score come in any order: the iteration order of a map is not
\* fixed, and the less function compares the scores alone.
RECURSIVE SortedByScore(_, _)
SortedByScore(ids, key) ==
  IF ids = {} THEN {<<>>}
  ELSE LET top == {x \in ids : \A y \in ids : hash(key, x) >= hash(key, y)}
       IN  UNION {{<<x>> \o t : t \in SortedByScore(ids \ {x}, key)} : x \in top}

\* what Owners returns: a slice of nodes (here their ids), nil, or a panic
Result(list, isNil, panics) == [list |-> list, isNil |-> isNil, panics |-> panics]

\* Owners(key, n): the results the call can have
Owners(ns, key, n) ==
  IF Members(ns) = {} THEN {Result(<<>>, TRUE, FALSE)}
  ELSE LET m == IF n > Cardinality(Members(ns)) THEN Cardinality(Members(ns)) ELSE n
       IN  IF m < 0 THEN {Result(<<>>, FALSE, TRUE)}      \* make([]*Node, n), n < 0
           ELSE {Result(SubSeq(s, 1, m), FALSE, FALSE) : s \in SortedByScore(Members(ns), key)}

\* ------------------------------------------------ what the claims speak of
\* the record of a Ring call
RingCall(op) ==
  [op |-> op, id |-> NoNode, addr |-> NoNode, key |-> "", n |-> 0,
   result |-> Result(<<>>, TRUE, FALSE)]
\* no earlier call to compare with
Nothing == <<>>

\* the entries met from e by following Next, at most n of them
RECURSIVE WalkNext(_, _, _)
WalkNext(cc, e, n) ==
  IF e = Nil \/ n = 0 THEN <<>> ELSE <<e>> \o WalkNext(cc, cc.mem[e].Next, n - 1)

\* the entries met from e by following Prev, at most n of them
RECURSIVE WalkPrev(_, _, _)
WalkPrev(cc, e, n) ==
  IF e = Nil \/ n = 0 THEN <<>> ELSE <<e>> \o WalkPrev(cc, cc.mem[e].Prev, n - 1)

\* a walk longer than the number of cells has met a cell twice
FromHead(cc) == WalkNext(cc, cc.head, NumKeys + 1)
FromTail(cc) == WalkPrev(cc, cc.tail, NumKeys + 1)

Range(s) == {s[i] : i \in 1..Len(s)}
NoDup(s) == \A i, j \in 1..Len(s) : i # j => s[i] # s[j]
Reverse(s) == [i \in 1..Len(s) |-> s[Len(s) + 1 - i]]
Without(s, x) == SelectSeq(s, LAMBDA y : y # x)
Min(a, b) == IF a < b THEN a ELSE b

\* the keys of the entries met from e by following Next, at most n of them
RECURSIVE KeysNext(_, _, _)
KeysNext(cc, e, n) ==
  IF e = Nil \/ n = 0 THEN <<>>
  ELSE <<cc.mem[e].Key>> \o KeysNext(cc, cc.mem[e].Next, n - 1)

\* the keys of the recency list, most recently used first
Order(cc) == KeysNext(cc, cc.head, NumKeys + 1)
\* the keys in the index
Indexed(cc) == {k \in Keys : cc.entries[k] # Nil}
\* value and expiry of the entry the index holds for k
ValueOf(cc, k) == cc.mem[cc.entries[k]].Value
ExpiryAt(cc, k) == cc.mem[cc.entries[k]].ExpiresAt

\* the claims' reading of ttl and expiry: a Set with ttl > 0 at time t is due at
\* t + ttl, and a due time has passed when the clock is strictly later
NoDeadline == ZeroTime
Deadline(ttl, t) == IF ttl > 0 THEN t + ttl ELSE NoDeadline
Passed(due, t) == due # NoDeadline /\ t > due
\* the last n elements of s
LastN(s, n) == IF n <= 0 THEN <<>> ELSE SubSeq(s, Len(s) - n + 1, Len(s))
\* s without its last element
Front(s) == SubSeq(s, 1, Len(s) - 1)

None   == [v |-> NilVal, e |-> NoDeadline]
Broken == <<Nil>>

\* the record of a call: the operation, the key, value and ttl given to a Set,
\* the value, boolean and count returned, and the entry a Set evicted
Call(op) ==
  [op |-> op, key |-> Nil, val |-> NilVal, ttl |-> 0,
   rv |-> NilVal, ok |-> FALSE, n |-> 0, out |-> Blank]

\* ------------------------------------------------------------- the actions
\* what a goroutine runs: the operation, its arguments, and the clock it read
Request(op, key, value, ttl, at) ==
  [op |-> op, key |-> key, value |-> value, ttl |-> ttl, at |-> at]

NoRequest == Request("none", Nil, NilVal, 0, 0)
NoSnap    == NewCache(0)

Idle == /\ mu = Free
        /\ pc = [g \in Procs |-> "idle"]
        /\ req = [g \in Procs |-> NoRequest]
        /\ snap = [g \in Procs |-> NoSnap]

\* the call of a goroutine on the Ring: the operation and its arguments, the
\* locals of Owners (top: n after the clamp, scores: the ids whose scores were
\* appended; their order is left to the sort), and the result of Owners
RingRequest(op, id, key, n) ==
  [op |-> op, id |-> id, key |-> key, n |-> n, top |-> n, scores |-> {},
   result |-> Result(<<>>, TRUE, FALSE)]

NoRingRequest == RingRequest("none", NoNode, "", 0)

\* no goroutine is in a call on the Ring
RingIdle ==
  /\ rmu = [writer |-> NoProc, readers |-> {}]
  /\ rpc = [p \in RingProcs |-> "idle"]
  /\ rreq = [p \in RingProcs |-> NoRingRequest]
  /\ rmoved = [p \in RingProcs |-> FALSE]

\* what a Client call leaves behind: the call, its error, the value of a Get,
\* the owners selected, per node the RPCs issued to it, the outcomes collected
\* and the successes among them, and the replicas a Get tried with what each
\* attempt ended in
Return(op, err) ==
  [op |-> op, err |-> err, value |-> NilVal]

NoReturn == Return("none", "")

\* the Client call in progress
Fanout(op, value, owners) ==
  [op |-> op, value |-> value, owners |-> owners, todo |-> Range(owners),
   results |-> <<>>, i |-> 0, successes |-> 0, rpcs |-> [id \in NodeIds |-> 0],
   calls |-> [id \in NodeIds |-> 0], answers |-> [id \in NodeIds |-> "none"],
   tried |-> <<>>, done |-> FALSE]

NoCall == Fanout("none", NilVal, <<>>)

\* no getFromNode call with hedging has begun
NoHedge ==
  [pc |-> "idle", hpc |-> "none", clock |-> 0, found |-> FALSE, first |-> "none",
   second |-> "none", ch |-> <<>>, cancelled |-> FALSE, rpcs |-> 0, result |-> "none",
   raced |-> FALSE]

\* what a call of the scenario returned
Got(value, err) == [value |-> value, err |-> err]
NotYet == Got(NilVal, "not called")

\* a request slot of the Server that holds no request
NoRpc == [pc |-> "idle", op |-> "none", ctx |-> "live"]

\* NewServer(config): all permits free, no sample taken, no request inside
NewServer(max, threshold, window) ==
  [max |-> max, threshold |-> threshold, window |-> window, free |-> max,
   history |-> <<>>, log |-> <<>>, rq |-> [q \in {"q1", "q2"} |-> NoRpc],
   reply |-> [err |-> "", by |-> "none"]]

NoServer == NewServer(0, 0, 0)

\* a goroutine that shares the Client and is about to call Set(key, value)
\* and then Get(key)
Job(key, value) ==
  [step |-> "start", key |-> key, value |-> value, owners |-> <<>>, todo |-> {}, i |-> 0,
   got |-> NotYet]

\* a goroutine that shares the Client and calls nothing
NoJob == [Job(ClientKey, NilVal) EXCEPT !.step = "none"]
NoJobs == [g \in {"g1", "g2"} |-> NoJob]

\* no connection is open
NoHandles == [id \in NodeIds |-> 0]

\* the scenario has not begun
NoScene == [step |-> "none", earlier |-> 0, x |-> NoNode, set1 |-> NotYet, get1 |-> NotYet,
            set2 |-> NotYet, get2 |-> NotYet, written |-> NotYet]

\* no Client is in use
NoClient ==
  /\ conns = {}
  /\ store = [id \in NodeIds |-> NewCache(0)]
  /\ config = [readQuorum |-> 1, writeQuorum |-> 1, hedged |-> FALSE, hedgeRatio |-> 0]
  /\ call = NoCall
  /\ ret = NoReturn
  /\ hedge = NoHedge
  /\ scene = NoScene
  /\ srv = NoServer
  /\ jobs = NoJobs
  /\ handles = NoHandles

\* no Ring is in use
NoRing ==
  /\ nodes = NewRing
  /\ score = [k \in RingKeys |-> [id \in NodeIds |-> 0]]
  /\ owned = RingCall("none")
  /\ again = Nothing

Init ==
  /\ c \in {NewCache(cap) : cap \in Capacities}
  /\ now = 1
  /\ last = Call("NewCache")
  /\ live = [k \in Keys |-> None]
  /\ run = <<>>
  /\ Idle
  /\ NoRing
  /\ RingIdle
  /\ NoClient

OpGet(k) ==
  LET r == Get(c, k, now) IN
  /\ last' = [Call("Get") EXCEPT !.rv = r.value, !.ok = r.found]
  /\ c' = r.c
  /\ live' = IF Passed(live[k].e, now) THEN [live EXCEPT ![k] = None] ELSE live
  /\ run' = Broken
  /\ UNCHANGED <<now, muVars, ringVars, laterVars>>

\* the entry that Set(key, value, ttl) evicts from cc: the one its evictLRU
\* takes out of the index, which is the new entry when nothing else is linked
Evicted(cc, key, value, ttl, t) ==
  LET after == Set(cc, key, value, ttl, t)
      gone  == {j \in Keys : (cc.entries[j] # Nil \/ j = key) /\ after.entries[j] = Nil}
      j     == CHOOSE x \in gone : TRUE
  IN  IF gone = {} THEN Blank
      ELSE IF j = key THEN Entry(key, value, ExpiryOf(ttl, t))
      ELSE Entry(j, ValueOf(cc, j), ExpiryAt(cc, j))

\* the keys a Set evicts are those it takes out of the index
OpSet(k, v, ttl) ==
  /\ last' = [Call("Set") EXCEPT !.key = k, !.val = v, !.ttl = ttl,
                                 !.out = Evicted(c, k, v, ttl, now)]
  /\ c' = Set(c, k, v, ttl, now)
  /\ live' = [j \in Keys |->
               IF c'.entries[j] = Nil /\ (j = k \/ c.entries[j] # Nil) THEN None
               ELSE IF j = k THEN [v |-> v, e |-> Deadline(ttl, now)]
               ELSE live[j]]
  /\ run' = IF run # Broken /\ ttl <= 0 /\ k \notin Range(run)
            THEN Append(run, k) ELSE Broken
  /\ UNCHANGED <<now, muVars, ringVars, laterVars>>

OpDelete(k) ==
  LET r == Delete(c, k) IN
  /\ last' = [Call("Delete") EXCEPT !.ok = r.removed]
  /\ c' = r.c
  /\ live' = [live EXCEPT ![k] = None]
  /\ run' = Broken
  /\ UNCHANGED <<now, muVars, ringVars, laterVars>>

OpCleanup ==
  \E r \in Cleanup(c, now) :
    /\ c' = r.c
    /\ last' = [Call("Cleanup") EXCEPT !.n = r.removed]
    /\ live' = [k \in Keys |-> IF Passed(live[k].e, now) THEN None ELSE live[k]]
    /\ UNCHANGED <<now, run, muVars, ringVars, laterVars>>

OpClear ==
  /\ c' = Clear(c)
  /\ last' = Call("Clear")
  /\ live' = [k \in Keys |-> None]
  /\ run' = <<>>
  /\ UNCHANGED <<now, muVars, ringVars, laterVars>>

\* the clock advances between two operations
Tick ==
  /\ now < MaxTime
  /\ now' = now + 1
  /\ last' = Call("Tick")
  /\ UNCHANGED <<c, live, run, muVars, ringVars, laterVars>>

Next ==
  \/ \E k \in Keys : OpGet(k)
  \/ \E k \in Keys, v \in Values, ttl \in TTLs : OpSet(k, v, ttl)
  \/ \E k \in Keys : OpDelete(k)
  \/ OpCleanup
  \/ OpClear
  \/ Tick

Spec == Init /\ [][Next]_vars

\* ------------------------------------- goroutines on one cache, under c.mu
\* a lock that excludes nobody
LockExcludesNobody(m) == TRUE

\* c.mu.Lock() returns only when no goroutine holds the lock
Lock(m) == m = Free

\* a goroutine calls Get, Set or Delete and gets past c.mu.Lock()
Acquire(g, op, k, v, ttl) ==
  /\ pc[g] = "idle"
  /\ Lock(mu)
  /\ mu' = g
  /\ req' = [req EXCEPT ![g] = Request(op, k, v, ttl, 0)]
  /\ snap' = [snap EXCEPT ![g] = c]
  /\ pc' = [pc EXCEPT ![g] = "locked"]
  /\ UNCHANGED <<c, now, histVars, ringVars, laterVars>>

\* the body of the operation; a Set of a new key stops after c.size++
Body(g) ==
  /\ pc[g] = "locked"
  /\ req' = [req EXCEPT ![g].at = now]
  /\ \/ /\ req[g].op = "Get"
        /\ c' = Get(c, req[g].key, now).c
        /\ pc' = [pc EXCEPT ![g] = "unlock"]
     \/ /\ req[g].op = "Delete"
        /\ c' = Delete(c, req[g].key).c
        /\ pc' = [pc EXCEPT ![g] = "unlock"]
     \/ /\ req[g].op = "Set"
        /\ c.entries[req[g].key] # Nil
        /\ c' = SetExisting(c, req[g].key, req[g].value, req[g].ttl, now)
        /\ pc' = [pc EXCEPT ![g] = "unlock"]
     \/ /\ req[g].op = "Set"
        /\ c.entries[req[g].key] = Nil
        /\ c' = SetInsert(c, req[g].key, req[g].value, req[g].ttl, now)
        /\ pc' = [pc EXCEPT ![g] = IF c'.size > c'.capacity THEN "evict" ELSE "unlock"]
  /\ UNCHANGED <<now, histVars, mu, snap, ringVars, laterVars>>

\* if c.size > c.capacity { c.evictLRU() }
Evict(g) ==
  /\ pc[g] = "evict"
  /\ c' = evictLRU(c)
  /\ pc' = [pc EXCEPT ![g] = "unlock"]
  /\ UNCHANGED <<now, histVars, mu, req, snap, ringVars, laterVars>>

\* the deferred c.mu.Unlock(): the operation ends
Release(g) ==
  /\ pc[g] = "unlock"
  /\ mu' = Free
  /\ pc' = [pc EXCEPT ![g] = "idle"]
  /\ req' = [req EXCEPT ![g] = NoRequest]
  /\ snap' = [snap EXCEPT ![g] = NoSnap]
  /\ UNCHANGED <<c, now, histVars, ringVars, laterVars>>

MuTick ==
  /\ now < MaxTime
  /\ now' = now + 1
  /\ UNCHANGED <<c, histVars, muVars, ringVars, laterVars>>

NextMu ==
  \/ \E g \in Procs, op \in {"Get", "Delete"}, k \in Keys : Acquire(g, op, k, NilVal, 0)
  \/ \E g \in Procs, k \in Keys, ttl \in MuTTLs : Acquire(g, "Set", k, MuValue, ttl)
  \/ \E g \in Procs : Body(g)
  \/ \E g \in Procs : Evict(g)
  \/ \E g \in Procs : Release(g)
  \/ MuTick

SpecMu == Init /\ [][NextMu]_vars

\* the operation of a request run alone on cache cc
Alone(cc, r) ==
  CASE r.op = "Get"    -> Get(cc, r.key, r.at).c
    [] r.op = "Delete" -> Delete(cc, r.key).c
    [] r.op = "Set"    -> Set(cc, r.key, r.value, r.ttl, r.at)
    [] OTHER           -> cc

\* ------------------------------------------------------ the ring's calls
InitRing ==
  /\ c = NewCache(0)
  /\ now = 1
  /\ last = Call("none")
  /\ live = [k \in Keys |-> None]
  /\ run = <<>>
  /\ Idle
  /\ nodes = NewRing
  /\ score \in [RingKeys -> [NodeIds -> Scores]]
  /\ owned = RingCall("NewRing")
  /\ again = Nothing
  /\ RingIdle
  /\ NoClient

OpAddNode(id, addr) ==
  /\ nodes' = AddNode(nodes, id, addr)
  /\ owned' = [RingCall("AddNode") EXCEPT !.id = id, !.addr = addr]
  /\ again' = Nothing
  /\ UNCHANGED <<score, cacheVars, histVars, muVars, laterVars>>

OpRemoveNode(id) ==
  /\ nodes' = RemoveNode(nodes, id)
  /\ owned' = [RingCall("RemoveNode") EXCEPT !.id = id]
  /\ again' = Nothing
  /\ UNCHANGED <<score, cacheVars, histVars, muVars, laterVars>>

OpOwners(key, n) ==
  \E r \in Owners(nodes, key, n) :
    /\ owned' = [RingCall("Owners") EXCEPT !.key = key, !.n = n, !.result = r]
    /\ again' = IF owned.op = "Owners" /\ owned.key = key /\ owned.n = n
                THEN <<owned.result>> ELSE Nothing
    /\ UNCHANGED <<nodes, score, cacheVars, histVars, muVars, laterVars>>

OpGetNodes ==
  \E s \in GetNodes(nodes) :
    /\ owned' = [RingCall("GetNodes") EXCEPT !.result = Result(s, FALSE, FALSE)]
    /\ again' = Nothing
    /\ UNCHANGED <<nodes, score, cacheVars, histVars, muVars, laterVars>>

OpNodeCount ==
  /\ owned' = [RingCall("NodeCount") EXCEPT !.n = NodeCount(nodes)]
  /\ again' = Nothing
  /\ UNCHANGED <<nodes, score, cacheVars, histVars, muVars, laterVars>>

NextRing ==
  \/ \E id \in NodeIds, addr \in Addrs : OpAddNode(id, addr)
  \/ \E id \in NodeIds : OpRemoveNode(id)
  \/ \E key \in RingKeys, n \in Counts : OpOwners(key, n)

SpecRing == InitRing /\ [][NextRing]_vars


\* ------------------------------------- goroutines on one Ring, under r.mu
\* a writer lock that readers do not keep out
LockIgnoresReaders(m) == m.writer = NoProc

\* r.mu.RLock() returns only when no writer holds the lock
RLock(m) == m.writer = NoProc

\* r.mu.Lock() returns only when no writer and no reader holds the lock
WLock(m) == m.writer = NoProc /\ m.readers = {}

\* the scores of MuRingKey: the ids are alike to the Ring, so n1 is given the
\* best score and n3 the least
MuRows == {row \in [NodeIds -> Scores] : row["n1"] >= row["n2"] /\ row["n2"] >= row["n3"]}

InitRingMu ==
  /\ c = NewCache(0)
  /\ now = 1
  /\ last = Call("none")
  /\ live = [k \in Keys |-> None]
  /\ run = <<>>
  /\ Idle
  /\ nodes = NewRing
  /\ \E row \in MuRows :
       score = [k \in RingKeys |-> IF k = MuRingKey THEN row ELSE [id \in NodeIds |-> 0]]
  /\ owned = RingCall("none")
  /\ again = Nothing
  /\ RingIdle
  /\ NoClient

\* a goroutine calls AddNode, RemoveNode or Owners
RingBegin(p, op, id, key, n) ==
  /\ rpc[p] = "idle"
  /\ rpc' = [rpc EXCEPT ![p] = "lock"]
  /\ rreq' = [rreq EXCEPT ![p] = RingRequest(op, id, key, n)]
  /\ rmoved' = [rmoved EXCEPT ![p] = FALSE]
  /\ UNCHANGED <<rmu, ringVars, cacheVars, histVars, muVars, clientVars>>

\* Owners: r.mu.RLock()
OwnersRLock(p) ==
  /\ rpc[p] = "lock" /\ rreq[p].op = "Owners"
  /\ RLock(rmu)
  /\ rmu' = [rmu EXCEPT !.readers = @ \union {p}]
  /\ rpc' = [rpc EXCEPT ![p] = "len"]
  /\ UNCHANGED <<rreq, rmoved, ringVars, cacheVars, histVars, muVars, clientVars>>

\* Owners: if len(r.nodes) == 0 { return nil }; if n > len(r.nodes) { n = len(r.nodes) }
OwnersLen(p) ==
  /\ rpc[p] = "len"
  /\ IF Members(nodes) = {}
     THEN /\ rreq' = [rreq EXCEPT ![p].result = Result(<<>>, TRUE, FALSE)]
          /\ rpc' = [rpc EXCEPT ![p] = "unlock"]
     ELSE /\ rreq' = [rreq EXCEPT ![p].top = IF @ > Cardinality(Members(nodes))
                                           THEN Cardinality(Members(nodes)) ELSE @]
          /\ rpc' = [rpc EXCEPT ![p] = "range"]
  /\ UNCHANGED <<rmu, rmoved, ringVars, cacheVars, histVars, muVars, clientVars>>

\* Owners: one iteration of for _, node := range r.nodes, on an entry of the
\* map not met yet; after the last one, the sort and the copy of the top n
OwnersRange(p) ==
  /\ rpc[p] = "range"
  /\ LET met  == rreq[p].scores
         todo == Members(nodes) \ met
     IN  IF todo # {}
         THEN /\ \E id \in todo : rreq' = [rreq EXCEPT ![p].scores = @ \union {id}]
              /\ rpc' = rpc
         ELSE /\ \E s \in SortedByScore(met, rreq[p].key) :
                   rreq' = [rreq EXCEPT ![p].result =
                              IF rreq[p].top < 0 \/ rreq[p].top > Len(s)
                              THEN Result(<<>>, FALSE, TRUE)
                              ELSE Result(SubSeq(s, 1, rreq[p].top), FALSE, FALSE)]
              /\ rpc' = [rpc EXCEPT ![p] = "unlock"]
  /\ UNCHANGED <<rmu, rmoved, ringVars, cacheVars, histVars, muVars, clientVars>>

\* AddNode, RemoveNode: r.mu.Lock()
RingWLock(p) ==
  /\ rpc[p] = "lock" /\ rreq[p].op # "Owners"
  /\ WLock(rmu)
  /\ rmu' = [rmu EXCEPT !.writer = p]
  /\ rpc' = [rpc EXCEPT ![p] = "write"]
  /\ UNCHANGED <<rreq, rmoved, ringVars, cacheVars, histVars, muVars, clientVars>>

\* AddNode, RemoveNode: the write of the map
RingWrite(p) ==
  /\ rpc[p] = "write"
  /\ nodes' = IF rreq[p].op = "AddNode" THEN AddNode(nodes, rreq[p].id, CHOOSE a \in Addrs : TRUE)
              ELSE RemoveNode(nodes, rreq[p].id)
  /\ rmoved' = [q \in RingProcs |-> rpc[q] # "idle" /\ rreq[q].op = "Owners"]
  /\ rpc' = [rpc EXCEPT ![p] = "unlock"]
  /\ UNCHANGED <<rmu, rreq, score, owned, again, cacheVars, histVars, muVars, clientVars>>

\* the deferred r.mu.RUnlock() or r.mu.Unlock(): the call returns
RingUnlock(p) ==
  /\ rpc[p] = "unlock"
  /\ rmu' = IF rreq[p].op = "Owners" THEN [rmu EXCEPT !.readers = @ \ {p}]
            ELSE [rmu EXCEPT !.writer = NoProc]
  /\ rpc' = [rpc EXCEPT ![p] = "idle"]
  /\ rreq' = [rreq EXCEPT ![p] = NoRingRequest]
  /\ rmoved' = [rmoved EXCEPT ![p] = FALSE]
  /\ UNCHANGED <<ringVars, cacheVars, histVars, muVars, clientVars>>

NextRingMu ==
  \/ \E p \in RingProcs, id \in NodeIds : RingBegin(p, "AddNode", id, "", 0)
  \/ \E p \in RingProcs, id \in NodeIds : RingBegin(p, "RemoveNode", id, "", 0)
  \/ \E p \in RingProcs, n \in MuCounts : RingBegin(p, "Owners", NoNode, MuRingKey, n)
  \/ \E p \in RingProcs : OwnersRLock(p)
  \/ \E p \in RingProcs : OwnersLen(p)
  \/ \E p \in RingProcs : OwnersRange(p)
  \/ \E p \in RingProcs : RingWLock(p)
  \/ \E p \in RingProcs : RingWrite(p)
  \/ \E p \in RingProcs : RingUnlock(p)

SpecRingMu == InitRingMu /\ [][NextRingMu]_vars

\* ------------------------------------------------------------ the client
\* the key of a server's Cache for a key of the client: the least of Keys
\* for ClientKey, the next one for the other key
CacheKey(key) == LET k1 == CHOOSE k \in Keys : \A j \in Keys : k <= j
                 IN  IF key = ClientKey THEN k1 ELSE k1 + 1

\* the capacity of a server's Cache: no entry is evicted
ReplicaCapacity == NumKeys

\* the scores of ClientKey: the ids are alike to the Client, so n1 is given
\* the best score and n3 the least, and only the order of the scores counts
ClientRows ==
  {row \in [NodeIds -> Scores] :
     /\ row["n3"] = 0
     /\ row["n2"] - row["n3"] \in {0, 1}
     /\ row["n1"] - row["n2"] \in {0, 1}}

\* ------------------------------------------------ all calls of the ring
\* every exported call of the Ring, with two addresses, on the tables of
\* scores in which n1 is not below n2 and n2 not below n3
Addresses == {"a1", "a2"}

InitMembers ==
  /\ InitRing
  /\ score \in [RingKeys -> ClientRows]

NextMembers ==
  \/ \E id \in NodeIds, addr \in Addresses : OpAddNode(id, addr)
  \/ \E id \in NodeIds : OpRemoveNode(id)
  \/ \E key \in RingKeys, n \in Counts : OpOwners(key, n)
  \/ OpGetNodes
  \/ OpNodeCount

SpecMembers == InitMembers /\ [][NextMembers]_vars

\* an RPC: the server ran the handler or not, and the answer reached the
\* client or the client got a transport or deadline error
Rpcs == {[handled |-> TRUE,  answered |-> TRUE],
         [handled |-> TRUE,  answered |-> FALSE],
         [handled |-> FALSE, answered |-> FALSE]}

\* success threshold of a write that one success satisfies
OneSuccessIsEnough(successes, w) == successes >= 1

\* if successes >= c.writeQuorum { return nil }
QuorumMet(successes, w) == successes >= w

\* a setToNode whose RPC is answered by a server that stored nothing
setToNodeUnapplied(cs, cc, id, key, value, t) ==
  IF id \notin cs THEN {[cache |-> cc, rpc |-> 0, err |-> "no connection"]}
  ELSE {[cache |-> cc, rpc |-> 1, err |-> IF o.answered THEN "" ELSE "transport error"]
        : o \in Rpcs}

\* a setToNode that sends the RPC again when it got no answer
setToNodeAgain(cs, cc, id, key, value, t) ==
  IF id \notin cs THEN {[cache |-> cc, rpc |-> 0, err |-> "no connection"]}
  ELSE {[cache |-> IF o.handled THEN Set(cc, CacheKey(key), value, 0, t) ELSE cc,
         rpc |-> IF o.answered THEN 1 ELSE 2,
         err |-> IF o.answered THEN "" ELSE "transport error"] : o \in Rpcs}

\* setToNode(ctx, nodeID, key, value, ttl): per way the RPC can go, the
\* server's Cache after it, whether an RPC was issued, and the error ("" for nil)
setToNode(cs, cc, id, key, value, t) ==
  IF id \notin cs THEN {[cache |-> cc, rpc |-> 0, err |-> "no connection"]}
  ELSE {[cache |-> IF o.handled THEN Set(cc, CacheKey(key), value, 0, t) ELSE cc,
         rpc |-> 1, err |-> IF o.answered THEN "" ELSE "transport error"] : o \in Rpcs}

\* deleteFromNode(ctx, nodeID, key): the same for a Delete RPC; an answer
\* with Deleted false is an error
deleteFromNode(cs, cc, id, key) ==
  IF id \notin cs THEN {[cache |-> cc, rpc |-> 0, err |-> "no connection"]}
  ELSE {[cache |-> IF o.handled THEN Delete(cc, CacheKey(key)).c ELSE cc,
         rpc |-> 1,
         err |-> IF ~o.answered THEN "transport error"
                 ELSE IF Delete(cc, CacheKey(key)).removed THEN ""
                 ELSE "delete operation failed"] : o \in Rpcs}

\* what getFromNodeWithRetry returns for an RPC that went as o
Answer(cc, key, t, o) ==
  IF ~o.answered THEN "transport error"
  ELSE IF Get(cc, CacheKey(key), t).found THEN "" ELSE "key not found"

\* the server's Cache after a Get RPC that went as o
AfterGet(cc, key, t, o) == IF o.handled THEN Get(cc, CacheKey(key), t).c ELSE cc

\* getFromNode(ctx, nodeID, key): per way it can go, the server's Cache after
\* it, the RPCs issued, what the first attempt ended in and what the call
\* returns.  With hedgeTimeout > 0 a first attempt that fails is followed by
\* the select on the hedge's value and ctx.Done(): the hedge's value, or the
\* deadline error when the hedge has no value or ctx.Done() is ready too.
getFromNode(cs, cc, id, key, t, hedged) ==
  IF id \notin cs
  THEN {[cache |-> cc, rpc |-> 0, first |-> "no connection", err |-> "no connection",
         value |-> NilVal]}
  ELSE LET found == Get(cc, CacheKey(key), t).value
           once == {[cache |-> AfterGet(cc, key, t, o), rpc |-> 1,
                     first |-> Answer(cc, key, t, o), err |-> Answer(cc, key, t, o),
                     value |-> IF Answer(cc, key, t, o) = "" THEN found ELSE NilVal]
                    : o \in Rpcs}
       IN  IF ~hedged THEN once
           ELSE {a \in once : a.err = ""}
                \union
                UNION {{[cache |-> AfterGet(a.cache, key, t, h), rpc |-> 2,
                         first |-> a.first, err |-> e,
                         value |-> IF e = "" THEN found ELSE NilVal]
                        : e \in IF Answer(a.cache, key, t, h) = ""
                                THEN {"", "deadline exceeded"} ELSE {"deadline exceeded"}}
                       : a \in {b \in once : b.err # ""}, h \in Rpcs}

InitClient ==
  /\ c = NewCache(0)
  /\ now = 1
  /\ last = Call("none")
  /\ live = [k \in Keys |-> None]
  /\ run = <<>>
  /\ Idle
  /\ nodes = NewRing
  /\ \E row \in ClientRows :
       score = [k \in RingKeys |-> IF k = ClientKey THEN row ELSE [id \in NodeIds |-> 0]]
  /\ owned = RingCall("none")
  /\ again = Nothing
  /\ RingIdle
  /\ conns = {}
  /\ store = [id \in NodeIds |-> NewCache(ReplicaCapacity)]
  /\ config \in [readQuorum : Quorums, writeQuorum : Quorums, hedged : BOOLEAN, hedgeRatio : {0}]
  /\ call = NoCall
  /\ ret = NoReturn
  /\ hedge = NoHedge
  /\ scene = NoScene
  /\ srv = NoServer
  /\ jobs = NoJobs
  /\ handles = NoHandles

\* Client.AddNode(id, addr): the ring first, then the dial, and the connection
\* only if the dial succeeded
ClientAddNode(id, addr, dialed) ==
  /\ call = NoCall
  /\ nodes' = AddNode(nodes, id, addr)
  /\ conns' = IF dialed THEN conns \union {id} ELSE conns
  /\ ret' = Return("AddNode", IF dialed THEN "" ELSE "failed to connect")
  /\ UNCHANGED <<store, config, call, hedge, scene, score, owned, again, cacheVars, histVars, muVars, lockVars,
                 srv, jobs, handles>>

\* Client.RemoveNode(id)
ClientRemoveNode(id) ==
  /\ call = NoCall
  /\ nodes' = RemoveNode(nodes, id)
  /\ conns' = conns \ {id}
  /\ ret' = Return("RemoveNode", "")
  /\ UNCHANGED <<store, config, call, hedge, scene, score, owned, again, cacheVars, histVars, muVars, lockVars,
                 srv, jobs, handles>>

\* Client.Close()
ClientClose ==
  /\ call = NoCall
  /\ conns' = {}
  /\ ret' = Return("Close", "")
  /\ UNCHANGED <<store, config, call, hedge, scene, ringVars, cacheVars, histVars, muVars, lockVars,
                 srv, jobs, handles>>

\* a call that never takes the early return
NeverNoOwners(owners) == FALSE

\* if len(owners) == 0 { return ... "no nodes available" }
NoOwners(owners) == Len(owners) = 0

\* Client.Set and Client.Delete up to the go statements: the owners, the
\* results channel and one goroutine per owner
ClientWrite(op, value) ==
  /\ call = NoCall
  /\ \E r \in Owners(nodes, ClientKey, config.writeQuorum) :
       IF NoOwners(r.list)
       THEN /\ ret' = Return(op, "no nodes available")
            /\ call' = call
       ELSE /\ ret' = NoReturn
            /\ call' = Fanout(op, value, r.list)
  /\ UNCHANGED <<conns, store, config, hedge, scene, ringVars, cacheVars, histVars, muVars, lockVars,
                 srv, jobs, handles>>

\* Client.Get(ctx, key) up to the first getFromNode
ClientGet ==
  /\ call = NoCall
  /\ \E r \in Owners(nodes, ClientKey, config.readQuorum) :
       IF NoOwners(r.list)
       THEN /\ ret' = Return("Get", "no nodes available")
            /\ call' = call
       ELSE /\ ret' = NoReturn
            /\ call' = Fanout("Get", NilVal, r.list)
  /\ UNCHANGED <<conns, store, config, hedge, scene, ringVars, cacheVars, histVars, muVars, lockVars,
                 srv, jobs, handles>>

\* c.getFromNode on the next owner: owners[0] first, owners[i] after the
\* owners before it have all returned an error
GetAttempt ==
  /\ call.op = "Get"
  /\ ~call.done
  /\ call.i < Len(call.owners)
  /\ LET id == call.owners[call.i + 1]
     IN  \E a \in getFromNode(conns, store[id], id, ClientKey, now, config.hedged) :
           /\ store' = [store EXCEPT ![id] = a.cache]
           /\ call' = [call EXCEPT !.i = @ + 1,
                                   !.calls[id] = @ + 1,
                                   !.rpcs[id] = @ + a.rpc,
                                   !.tried = Append(@, [id |-> id, first |-> a.first, err |-> a.err]),
                                   !.done = (a.err = ""),
                                   !.value = a.value]
  /\ UNCHANGED <<conns, config, ret, hedge, scene, ringVars, cacheVars, histVars, muVars, lockVars,
                 srv, jobs, handles>>

\* Client.Get returns: the value of the attempt that succeeded, or the error
\* after the last owner
GetReturn ==
  /\ call.op = "Get"
  /\ call.done \/ call.i = Len(call.owners)
  /\ ret' = [Return("Get", IF call.done THEN "" ELSE "failed to get key from any node")
               EXCEPT !.value = call.value]
  /\ call' = NoCall
  /\ UNCHANGED <<conns, store, config, hedge, scene, ringVars, cacheVars, histVars, muVars, lockVars,
                 srv, jobs, handles>>

\* the goroutine of one owner: results <- c.setToNode(...) or c.deleteFromNode(...)
ReplicaWrite(id) ==
  /\ call.op \in {"Set", "Delete"}
  /\ id \in call.todo
  /\ \E o \in IF call.op = "Set"
              THEN setToNode(conns, store[id], id, ClientKey, call.value, now)
              ELSE deleteFromNode(conns, store[id], id, ClientKey) :
       /\ store' = [store EXCEPT ![id] = o.cache]
       /\ call' = [call EXCEPT !.todo = @ \ {id},
                               !.results = Append(@, o.err = ""),
                               !.answers[id] = o.err,
                               !.calls[id] = @ + 1,
                               !.rpcs[id] = @ + o.rpc]
  /\ UNCHANGED <<conns, config, ret, hedge, scene, ringVars, cacheVars, histVars, muVars, lockVars,
                 srv, jobs, handles>>

\* one turn of the loop: if err := <-results; err == nil { successes++ }
Collect ==
  /\ call.op \in {"Set", "Delete"}
  /\ call.i < Len(call.owners)
  /\ call.results # <<>>
  /\ call' = [call EXCEPT !.i = @ + 1,
                          !.successes = IF Head(call.results) THEN @ + 1 ELSE @,
                          !.results = Tail(@)]
  /\ UNCHANGED <<conns, store, config, ret, hedge, scene, ringVars, cacheVars, histVars, muVars, lockVars,
                 srv, jobs, handles>>

\* the error of a Set or Delete that did not reach the quorum
QuorumError(op) == IF op = "Set" THEN "failed to write to quorum of nodes"
                   ELSE "failed to delete from quorum of nodes"

\* after the loop: nil if successes >= c.writeQuorum, the quorum error otherwise
WriteReturn ==
  /\ call.op \in {"Set", "Delete"}
  /\ call.i = Len(call.owners)
  /\ ret' = [Return(call.op, IF QuorumMet(call.successes, config.writeQuorum) THEN ""
                              ELSE QuorumError(call.op))
               EXCEPT !.value = call.value]
  /\ call' = NoCall
  /\ UNCHANGED <<conns, store, config, hedge, scene, ringVars, cacheVars, histVars, muVars, lockVars,
                 srv, jobs, handles>>

NextClient ==
  \/ \E id \in NodeIds, addr \in Addrs, dialed \in BOOLEAN : ClientAddNode(id, addr, dialed)
  \/ \E id \in NodeIds : ClientRemoveNode(id)
  \/ ClientClose
  \/ ClientGet
  \/ GetAttempt
  \/ GetReturn
  \/ \E v \in Written : ClientWrite("Set", v)
  \/ ClientWrite("Delete", NilVal)
  \/ \E id \in NodeIds : ReplicaWrite(id)
  \/ Collect
  \/ WriteReturn

SpecClient == InitClient /\ [][NextClient]_vars

\* ------------------------------------------------- one hedged getFromNode
\* Time is counted in ticks from the call of getFromNode.  An RPC is bound to
\* the ctx it was issued with: it can be answered while that ctx is not done
\* and ends with the ctx's error once it is.  Time passes only while the main
\* goroutine has nothing to do.
HedgeTimeout == 4                       \* c.hedgeTimeout, in ticks
Half         == HedgeTimeout \div 2     \* c.hedgeTimeout / 2
MaxClock     == HedgeTimeout + 1
ChanCap      == 1                       \* make(chan []byte, 1)

\* Config.HedgeRatio, which NewClient stores in c.hedgeRatio: the fraction of
\* the reads that may be hedged, none of them or all of them
HedgeRatios == {0, 1}

\* what a Get RPC that is answered can end in, on a replica that holds the key or not
Answers(found) == {IF found THEN "value" ELSE "key not found", "transport error"}

\* ctx.Done() is closed: the deadline of context.WithTimeout has passed or
\* cancel() was called
CtxDone(h) == h.cancelled \/ h.clock >= HedgeTimeout

\* ctx.Err()
CtxErr(h) == IF h.clock >= HedgeTimeout THEN "deadline exceeded" ELSE "canceled"

\* the ctx the hedge RPC is issued with, the one of the first RPC, is done
HedgeCtxDone(h) == CtxDone(h)

\* a send on an unbuffered hedgeCh: only while the receiver waits in the select
SendUnbuffered(h) == h.pc = "select"

\* hedgeCh <- value can proceed
CanSend(h) == Len(h.ch) < ChanCap

hedgeFrame == <<cacheVars, histVars, muVars, ringVars, lockVars, conns, store, config, call, ret,
                scene, srv, jobs, handles>>

InitHedge ==
  /\ c = NewCache(0)
  /\ now = 1
  /\ last = Call("none")
  /\ live = [k \in Keys |-> None]
  /\ run = <<>>
  /\ Idle
  /\ NoRing
  /\ RingIdle
  /\ conns = {}
  /\ store = [id \in NodeIds |-> NewCache(0)]
  /\ \E q \in HedgeRatios :
       config = [readQuorum |-> 1, writeQuorum |-> 1, hedged |-> TRUE, hedgeRatio |-> q]
  /\ call = NoCall
  /\ ret = NoReturn
  /\ \E f \in BOOLEAN : hedge = [NoHedge EXCEPT !.found = f]
  /\ scene = NoScene
  /\ srv = NoServer
  /\ jobs = NoJobs
  /\ handles = NoHandles

\* getFromNode up to the first RPC: context.WithTimeout, hedgeCh, the go
\* statement, and the call of getFromNodeWithRetry
HedgeBegin ==
  /\ hedge.pc = "idle"
  /\ hedge' = [hedge EXCEPT !.pc = "primary", !.hpc = "sleep", !.first = "out", !.rpcs = 1]
  /\ UNCHANGED hedgeFrame

\* a tick of time
HedgeTick ==
  /\ hedge.pc # "idle"
  /\ hedge.clock < MaxClock
  /\ ~(hedge.first = "out" /\ CtxDone(hedge))
  /\ ~(hedge.second = "out" /\ HedgeCtxDone(hedge))
  /\ ~(hedge.pc = "select" /\ (hedge.ch # <<>> \/ CtxDone(hedge)))
  /\ hedge' = [hedge EXCEPT !.clock = @ + 1]
  /\ UNCHANGED hedgeFrame

\* the first getFromNodeWithRetry returns: with a value getFromNode returns it
\* (and the deferred cancel runs), otherwise getFromNode goes on to the select
PrimaryEnds(how) ==
  /\ hedge.pc = "primary"
  /\ hedge' = IF how = "value"
              THEN [hedge EXCEPT !.pc = "returned", !.first = how, !.result = "value",
                                 !.cancelled = TRUE]
              ELSE [hedge EXCEPT !.pc = "select", !.first = how]
  /\ UNCHANGED hedgeFrame

\* the first RPC is answered before ctx is done
PrimaryAnswer ==
  /\ ~CtxDone(hedge)
  /\ \E how \in Answers(hedge.found) : PrimaryEnds(how)

\* the first RPC ends with ctx's error
PrimaryExpire ==
  /\ CtxDone(hedge)
  /\ PrimaryEnds(CtxErr(hedge))

\* select { case value := <-hedgeCh: ...; case <-ctx.Done(): ... }: one of the
\* cases that are ready, and the deferred cancel
Select ==
  /\ hedge.pc = "select"
  /\ \/ /\ hedge.ch # <<>>
        /\ hedge' = [hedge EXCEPT !.pc = "returned", !.result = "value", !.ch = Tail(@),
                                  !.cancelled = TRUE]
     \/ /\ CtxDone(hedge)
        /\ hedge' = [hedge EXCEPT !.pc = "returned", !.result = CtxErr(hedge),
                                  !.cancelled = TRUE]
  /\ UNCHANGED hedgeFrame

\* the goroutine after time.Sleep(c.hedgeTimeout / 2): the second RPC, which
\* fails at once when its ctx is done already
HedgeWake ==
  /\ hedge.hpc = "sleep"
  /\ hedge.clock >= Half
  /\ hedge' = IF HedgeCtxDone(hedge)
              THEN [hedge EXCEPT !.hpc = "end", !.second = CtxErr(hedge), !.rpcs = @ + 1]
              ELSE [hedge EXCEPT !.hpc = "rpc", !.second = "out", !.rpcs = @ + 1]
  /\ UNCHANGED hedgeFrame

\* the second getFromNodeWithRetry returns: with a value the goroutine goes
\* on to the send, otherwise it ends
HedgeEnds(how) ==
  /\ hedge.hpc = "rpc"
  /\ hedge' = [hedge EXCEPT !.second = how,
                            !.hpc = IF how = "value" THEN "send" ELSE "end"]
  /\ UNCHANGED hedgeFrame

\* the second RPC is answered before its ctx is done
HedgeAnswer ==
  /\ ~HedgeCtxDone(hedge)
  /\ \E how \in Answers(hedge.found) : HedgeEnds(how)

\* the second RPC ends with its ctx's error
HedgeExpire ==
  /\ HedgeCtxDone(hedge)
  /\ HedgeEnds(CtxErr(hedge))

\* hedgeCh <- value, and the end of the goroutine
HedgeSend ==
  /\ hedge.hpc = "send"
  /\ CanSend(hedge)
  /\ hedge' = [hedge EXCEPT !.hpc = "end", !.ch = Append(@, "value"),
                            !.raced = (hedge.first = "out" /\ hedge.clock < HedgeTimeout)]
  /\ UNCHANGED hedgeFrame

NextHedge ==
  \/ HedgeBegin
  \/ HedgeTick
  \/ PrimaryAnswer
  \/ PrimaryExpire
  \/ Select
  \/ HedgeWake
  \/ HedgeAnswer
  \/ HedgeExpire
  \/ HedgeSend

\* every goroutine that can run does, and time passes
SpecHedge == InitHedge /\ [][NextHedge]_vars /\ WF_vars(NextHedge)

\* --------------------------------- the scenario "quorum with node failure"
\* Three servers, a Client with ReadQuorum = WriteQuorum = 2 that has added
\* all three; every server that runs answers every RPC.  The calls are made
\* one after the other, so that each is one step.
MaxEarlier == 1          \* Sets of the key before the scenario's first Set
Stale      == "v0"       \* the value of those

\* a server that acknowledges a Set and stores nothing
SetDropped(cs, cc, id, key, value, t) == cc

\* setToNode on a node that answers: the server's Cache after it
SetAnswered(cs, cc, id, key, value, t) ==
  (CHOOSE o \in setToNode(cs, cc, id, key, value, t) : o.err = "").cache

\* Client.Set when every owner answers: the servers' Caches after it
SetAll(cs, st, owners, key, value, t) ==
  [id \in NodeIds |-> IF id \in Range(owners)
                      THEN SetAnswered(cs, st[id], id, key, value, t) ELSE st[id]]

\* getFromNode on a node that answers (the hedge too, if there is one)
GetAnswered(cs, cc, id, key, t, hedged) ==
  CHOOSE a \in getFromNode(cs, cc, id, key, t, hedged) :
    a.first \in {"", "key not found"} /\ (a.err # "" => a.first = "key not found")

\* Client.Get from the i-th owner on when every owner answers: the value and
\* the error it returns
RECURSIVE GetInTurn(_, _, _, _, _, _, _)
GetInTurn(cs, st, owners, i, key, t, hedged) ==
  IF i > Len(owners) THEN Got(NilVal, "failed to get key from any node")
  ELSE LET a == GetAnswered(cs, st[owners[i]], owners[i], key, t, hedged)
       IN  IF a.err = "" THEN Got(a.value, "")
           ELSE GetInTurn(cs, st, owners, i + 1, key, t, hedged)

InitScene ==
  /\ c = NewCache(0)
  /\ now = 1
  /\ last = Call("none")
  /\ live = [k \in Keys |-> None]
  /\ run = <<>>
  /\ Idle
  /\ nodes = [id \in NodeIds |-> CHOOSE a \in Addrs : TRUE]
  /\ \E row \in ClientRows :
       score = [k \in RingKeys |-> IF k = ClientKey THEN row ELSE [id \in NodeIds |-> 0]]
  /\ owned = RingCall("none")
  /\ again = Nothing
  /\ RingIdle
  /\ conns = NodeIds
  /\ store = [id \in NodeIds |-> NewCache(ReplicaCapacity)]
  /\ \E h \in BOOLEAN : config = [readQuorum |-> 2, writeQuorum |-> 2, hedged |-> h, hedgeRatio |-> 0]
  /\ call = NoCall
  /\ ret = NoReturn
  /\ hedge = NoHedge
  /\ scene = [NoScene EXCEPT !.step = "set1"]
  /\ srv = NoServer
  /\ jobs = NoJobs
  /\ handles = NoHandles

\* Client.Set(key, value) in the scenario, as the step named at; next is the
\* step after it
SceneSet(at, next, value) ==
  /\ scene.step = at
  /\ \E r \in Owners(nodes, ClientKey, config.writeQuorum) :
       /\ store' = SetAll(conns, store, r.list, ClientKey, value, now)
       /\ scene' = IF at = "set1" /\ value = Stale
                   THEN [scene EXCEPT !.earlier = @ + 1]
                   ELSE [scene EXCEPT !.step = next,
                                      ![at] = Got(value, IF QuorumMet(Len(r.list), config.writeQuorum)
                                                         THEN "" ELSE QuorumError("Set"))]
  /\ UNCHANGED <<conns, config, call, ret, hedge, ringVars, cacheVars, histVars, muVars, lockVars,
                 srv, jobs, handles>>

\* a Set of the key with another value, before the scenario's first Set
SceneEarlier ==
  /\ scene.earlier < MaxEarlier
  /\ SceneSet("set1", "set1", Stale)

\* the server of node x is stopped and the Client calls RemoveNode(x)
SceneRemove(x) ==
  /\ scene.step = "remove"
  /\ nodes' = RemoveNode(nodes, x)
  /\ conns' = conns \ {x}
  /\ scene' = [scene EXCEPT !.step = "get1", !.x = x]
  /\ UNCHANGED <<store, config, call, ret, hedge, score, owned, again, cacheVars, histVars,
                 muVars, lockVars, srv, jobs, handles>>

\* Client.Get(key) in the scenario, as the step named at
SceneGet(at, next) ==
  /\ scene.step = at
  /\ \E r \in Owners(nodes, ClientKey, config.readQuorum) :
       scene' = [scene EXCEPT !.step = next,
                              ![at] = GetInTurn(conns, store, r.list, 1, ClientKey, now,
                                                config.hedged)]
  /\ UNCHANGED <<conns, store, config, call, ret, hedge, ringVars, cacheVars, histVars, muVars,
                 lockVars, srv, jobs, handles>>

NextScene ==
  \/ SceneEarlier
  \/ SceneSet("set1", "remove", "v1")
  \/ \E x \in NodeIds : SceneRemove(x)
  \/ SceneGet("get1", "set2")
  \/ SceneSet("set2", "get2", "v2")
  \/ SceneGet("get2", "done")

SpecScene == InitScene /\ [][NextScene]_vars

\* ------------------------------------------------ one node of three fails
\* Three servers, a Client with ReadQuorum = WriteQuorum = 2 that has added
\* all three and makes its calls one after the other.  At some point the
\* server of one node stops answering; the node stays in the Client's ring.
\* An RPC to it fails and changes nothing, every other RPC is answered.
\* scene.written is the value of the last Set that returned nil, while no
\* Set that failed and no Delete came after it.

\* the owners of a call without the node that is down
Up(owners) == SelectSeq(owners, LAMBDA id : id # scene.x)

\* setToNode or deleteFromNode on a node that answers: how it goes
WriteAnswered(op, cs, cc, id, key, value, t) ==
  CHOOSE o \in (IF op = "Set" THEN setToNode(cs, cc, id, key, value, t)
                ELSE deleteFromNode(cs, cc, id, key)) : o.err # "transport error"

InitOutage ==
  /\ c = NewCache(0)
  /\ now = 1
  /\ last = Call("none")
  /\ live = [k \in Keys |-> None]
  /\ run = <<>>
  /\ Idle
  /\ nodes = [id \in NodeIds |-> CHOOSE a \in Addrs : TRUE]
  /\ \E row \in ClientRows :
       score = [k \in RingKeys |-> IF k = ClientKey THEN row ELSE [id \in NodeIds |-> 0]]
  /\ owned = RingCall("none")
  /\ again = Nothing
  /\ RingIdle
  /\ conns = NodeIds
  /\ store = [id \in NodeIds |-> NewCache(ReplicaCapacity)]
  /\ \E h \in BOOLEAN : config = [readQuorum |-> 2, writeQuorum |-> 2, hedged |-> h, hedgeRatio |-> 0]
  /\ call = NoCall
  /\ ret = NoReturn
  /\ hedge = NoHedge
  /\ scene = [NoScene EXCEPT !.step = "before"]
  /\ srv = NoServer
  /\ jobs = NoJobs
  /\ handles = NoHandles

\* the step of the scenario after a call
AfterCall == IF scene.step = "before" THEN "before" ELSE "after"

\* Client.Set(key, value) or Client.Delete(key): the goroutines of the owners
\* that are up change their servers' Caches, the one of the owner that is
\* down gets an error
OutageWrite(op, value) ==
  \E r \in Owners(nodes, ClientKey, config.writeQuorum) :
    LET how == [id \in Range(Up(r.list)) |->
                  WriteAnswered(op, conns, store[id], id, ClientKey, value, now)]
        successes == Cardinality({id \in Range(Up(r.list)) : how[id].err = ""})
        err == IF QuorumMet(successes, config.writeQuorum) THEN "" ELSE QuorumError(op)
    IN  /\ store' = [id \in NodeIds |-> IF id \in Range(Up(r.list)) THEN how[id].cache
                                         ELSE store[id]]
        /\ ret' = [Return(op, err) EXCEPT !.value = value]
        /\ scene' = [scene EXCEPT !.step = AfterCall,
                                  !.written = IF op = "Set" /\ err = ""
                                              THEN Got(value, "") ELSE NotYet]
        /\ UNCHANGED <<conns, config, call, hedge, ringVars, cacheVars, histVars, muVars, lockVars, srv, jobs, handles>>

\* Client.Get(key): the attempt on an owner that is down fails, so the call
\* goes through the owners that are up
OutageGet ==
  \E r \in Owners(nodes, ClientKey, config.readQuorum) :
    LET got == GetInTurn(conns, store, Up(r.list), 1, ClientKey, now, config.hedged)
    IN  /\ ret' = [Return("Get", got.err) EXCEPT !.value = got.value]
        /\ scene' = [scene EXCEPT !.step = AfterCall]
        /\ UNCHANGED <<conns, store, config, call, hedge, ringVars, cacheVars, histVars, muVars,
                       lockVars, srv, jobs, handles>>

\* the server of node x stops
OutageFail(x) ==
  /\ scene.step = "before"
  /\ scene' = [scene EXCEPT !.step = "down", !.x = x]
  /\ UNCHANGED <<conns, store, config, call, ret, hedge, ringVars, cacheVars, histVars, muVars,
                 lockVars, srv, jobs, handles>>

NextOutage ==
  \/ \E v \in Values : OutageWrite("Set", v)
  \/ OutageWrite("Delete", NilVal)
  \/ OutageGet
  \/ \E x \in NodeIds : OutageFail(x)

SpecOutage == InitOutage /\ [][NextOutage]_vars

\* ------------------------------------- goroutines that share one Client
\* The e2e scenario "concurrent operations": goroutines that share one
\* Client on three nodes with ReadQuorum = WriteQuorum = 2, each calling
\* Set(key, value) without TTL and then Get(key); every server answers every
\* RPC.  The goroutines use different keys or the same one.  A call is made
\* in the steps of its RPCs, so that the calls of the goroutines interleave.
Goroutines == {"g1", "g2"}
SharedRows ==
  ClientRows \union {[id \in NodeIds |-> IF id = "n1" THEN 0 ELSE IF id = "n2" THEN 1 ELSE 2]}
SharedCapacities == {1, 2}

InitShared ==
  /\ c = NewCache(0)
  /\ now = 1
  /\ last = Call("none")
  /\ live = [k \in Keys |-> None]
  /\ run = <<>>
  /\ Idle
  /\ nodes = [id \in NodeIds |-> CHOOSE a \in Addrs : TRUE]
  /\ score \in [RingKeys -> SharedRows]
  /\ owned = RingCall("none")
  /\ again = Nothing
  /\ RingIdle
  /\ conns = NodeIds
  /\ \E capacity \in SharedCapacities : store = [id \in NodeIds |-> NewCache(capacity)]
  /\ config = [readQuorum |-> 2, writeQuorum |-> 2, hedged |-> FALSE, hedgeRatio |-> 0]
  /\ call = NoCall
  /\ ret = NoReturn
  /\ hedge = NoHedge
  /\ scene = NoScene
  /\ srv = NoServer
  /\ \E key \in RingKeys :
       jobs = [g \in Goroutines |-> IF g = "g1" THEN Job(ClientKey, "v1") ELSE Job(key, "v2")]
  /\ handles = NoHandles

sharedFrame == <<cacheVars, histVars, muVars, ringVars, lockVars, conns, config, call, ret, hedge,
                 scene, srv, handles>>

\* Client.Set up to the go statements
SharedSet(g) ==
  /\ jobs[g].step = "start"
  /\ \E r \in Owners(nodes, jobs[g].key, config.writeQuorum) :
       jobs' = [jobs EXCEPT ![g].step = "set", ![g].owners = r.list, ![g].todo = Range(r.list)]
  /\ UNCHANGED <<store, sharedFrame>>

\* the goroutine of one owner: c.setToNode, answered
SharedWrite(g, id) ==
  /\ jobs[g].step = "set"
  /\ id \in jobs[g].todo
  /\ store' = [store EXCEPT ![id] = SetAnswered(conns, @, id, jobs[g].key, jobs[g].value, now)]
  /\ jobs' = [jobs EXCEPT ![g].todo = @ \ {id}]
  /\ UNCHANGED sharedFrame

\* Client.Set returns when the results of all owners are in, all of them nil
SharedSetReturn(g) ==
  /\ jobs[g].step = "set"
  /\ jobs[g].todo = {}
  /\ jobs' = IF QuorumMet(Len(jobs[g].owners), config.writeQuorum)
             THEN [jobs EXCEPT ![g].step = "between"]
             ELSE [jobs EXCEPT ![g].step = "end", ![g].got = Got(NilVal, QuorumError("Set"))]
  /\ UNCHANGED <<store, sharedFrame>>

\* Client.Get up to the first getFromNode
SharedGet(g) ==
  /\ jobs[g].step = "between"
  /\ \E r \in Owners(nodes, jobs[g].key, config.readQuorum) :
       jobs' = [jobs EXCEPT ![g].step = "get", ![g].owners = r.list, ![g].i = 0]
  /\ UNCHANGED <<store, sharedFrame>>

\* c.getFromNode on the next owner, answered; Client.Get returns the value
\* found, or the error after the last owner
SharedTry(g) ==
  /\ jobs[g].step = "get"
  /\ LET id == jobs[g].owners[jobs[g].i + 1]
         a == GetAnswered(conns, store[id], id, jobs[g].key, now, config.hedged)
     IN  /\ store' = [store EXCEPT ![id] = a.cache]
         /\ jobs' = IF a.err = ""
                    THEN [jobs EXCEPT ![g].step = "end", ![g].got = Got(a.value, "")]
                    ELSE IF jobs[g].i + 1 = Len(jobs[g].owners)
                    THEN [jobs EXCEPT ![g].step = "end",
                                      ![g].got = Got(NilVal, "failed to get key from any node")]
                    ELSE [jobs EXCEPT ![g].i = @ + 1]
  /\ UNCHANGED sharedFrame

NextShared ==
  \E g \in Goroutines :
    \/ SharedSet(g)
    \/ \E id \in NodeIds : SharedWrite(g, id)
    \/ SharedSetReturn(g)
    \/ SharedGet(g)
    \/ SharedTry(g)

SpecShared == InitShared /\ [][NextShared]_vars

\* ------------------------------------------------------------ one Server
\* One Server with its Cache c.  Time is counted in seconds: the ticker of the
\* monitoring goroutine fires once per second and takes one sample.  A sample
\* is a load level; the threshold is a load level too.  srv.log is every
\* sample taken since NewServer, srv.reply the error that the last request
\* decided got, and whether the interceptor decided it or the handler.
Requests == {"q1", "q2"}
Ops == {"Get", "Set", "Delete", "Health"}
Loads == {0, 2}
Thresholds == {1}
Windows == {1, 2}
Permits == {1, 2}
ServerTTL == 1

RECURSIVE SumOf(_)
SumOf(xs) == IF xs = <<>> THEN 0 ELSE Head(xs) + SumOf(Tail(xs))

\* a gate that closes when the mean reaches the threshold
shedAtThreshold(history, threshold) ==
  IF Len(history) = 0 THEN FALSE ELSE SumOf(history) >= threshold * Len(history)

\* s.shouldShedLoad(): avgCPU > s.cpuThreshold, with avgCPU = sum / len
shouldShedLoad(history, threshold) ==
  IF Len(history) = 0 THEN FALSE ELSE SumOf(history) > threshold * Len(history)

\* s.updateCPUUsage(): append, then keep the last windowSize samples
updateCPUUsage(history, cpuUsage, windowSize) ==
  LET h == Append(history, cpuUsage)
  IN  IF Len(h) > windowSize THEN SubSeq(h, Len(h) - windowSize + 1, Len(h)) ELSE h

\* an interceptor that does not look at ctx
GateSkipsCtx(r, s) ==
  IF shouldShedLoad(s.history, s.threshold) THEN "Unavailable: server overloaded" ELSE ""

\* unaryInterceptor up to the semaphore: the error it returns, or ""
Gate(r, s) ==
  IF r.ctx # "live" THEN "Canceled: request canceled"
  ELSE IF shouldShedLoad(s.history, s.threshold) THEN "Unavailable: server overloaded"
  ELSE ""

\* an acquire that always gets a permit
AcquireAlways(free) == TRUE

\* s.semaphore.TryAcquire(1): whether a permit was free
TryAcquire(free) == free >= 1

\* a release that gives nothing back
ReleaseNone(free) == free

\* s.semaphore.Release(1)
ReleasePermit(free) == free + 1

\* the handler of an RPC: the Cache afterwards and the error returned
Handler(r, cc, t) ==
  IF r.ctx # "live" THEN [c |-> cc, err |-> "Canceled: request canceled"]
  ELSE [c |-> CASE r.op = "Get" -> Get(cc, CacheKey(ClientKey), t).c
                [] r.op = "Set" -> Set(cc, CacheKey(ClientKey), "v1", ServerTTL, t)
                [] r.op = "Delete" -> Delete(cc, CacheKey(ClientKey)).c
                [] OTHER -> cc,
        err |-> ""]

InitServer ==
  /\ c = NewCache(1)
  /\ now = 1
  /\ last = Call("NewCache")
  /\ live = [k \in Keys |-> None]
  /\ run = <<>>
  /\ Idle
  /\ NoRing
  /\ RingIdle
  /\ conns = {}
  /\ store = [id \in NodeIds |-> NewCache(0)]
  /\ config = [readQuorum |-> 1, writeQuorum |-> 1, hedged |-> FALSE, hedgeRatio |-> 0]
  /\ call = NoCall
  /\ ret = NoReturn
  /\ hedge = NoHedge
  /\ scene = NoScene
  /\ \E max \in Permits, threshold \in Thresholds, window \in Windows :
       srv = NewServer(max, threshold, window)
  /\ jobs = NoJobs
  /\ handles = NoHandles

serverFrame == <<histVars, muVars, ringVars, lockVars, conns, store, config, call, ret, hedge,
                 scene, jobs, handles>>

\* a request reaches the node, its ctx live or already done
Arrive(q, op, ctx) ==
  /\ srv.rq[q].pc = "idle"
  /\ srv' = [srv EXCEPT !.rq[q] = [pc |-> "gate", op |-> op, ctx |-> ctx]]
  /\ UNCHANGED <<cacheVars, serverFrame>>

\* the ctx of a request inside the Server is cancelled or passes its deadline
Cancel(q) ==
  /\ srv.rq[q].pc \in {"gate", "permit", "handler"}
  /\ srv.rq[q].ctx = "live"
  /\ srv' = [srv EXCEPT !.rq[q].ctx = "done"]
  /\ UNCHANGED <<cacheVars, serverFrame>>

\* unaryInterceptor: the check of ctx.Err() and the load shedding
Intercept(q) ==
  /\ srv.rq[q].pc = "gate"
  /\ LET err == Gate(srv.rq[q], srv)
     IN  srv' = IF err = "" THEN [srv EXCEPT !.rq[q].pc = "permit"]
                ELSE [srv EXCEPT !.rq[q] = NoRpc,
                                 !.reply = [err |-> err, by |-> "gate"]]
  /\ UNCHANGED <<cacheVars, serverFrame>>

\* unaryInterceptor: if !s.semaphore.TryAcquire(1) { return ... Unavailable }
Permit(q) ==
  /\ srv.rq[q].pc = "permit"
  /\ srv' = IF TryAcquire(srv.free)
            THEN [srv EXCEPT !.rq[q].pc = "handler", !.free = @ - 1]
            ELSE [srv EXCEPT !.rq[q] = NoRpc,
                             !.reply = [err |-> "Unavailable: too many concurrent requests",
                                        by |-> "permit"]]
  /\ UNCHANGED <<cacheVars, serverFrame>>

\* handler(ctx, req): Server.Get, Server.Set, Server.Delete or Server.Health
Handle(q) ==
  /\ srv.rq[q].pc = "handler"
  /\ LET h == Handler(srv.rq[q], c, now)
     IN  /\ c' = h.c
         /\ srv' = [srv EXCEPT !.rq[q] = [NoRpc EXCEPT !.pc = "release"],
                               !.reply = [err |-> h.err, by |-> "handler"]]
  /\ UNCHANGED <<now, serverFrame>>

\* the deferred s.semaphore.Release(1) as unaryInterceptor returns
Deferred(q) ==
  /\ srv.rq[q].pc = "release"
  /\ srv' = [srv EXCEPT !.rq[q] = NoRpc, !.free = ReleasePermit(@)]
  /\ UNCHANGED <<cacheVars, serverFrame>>

\* a second passes: the ticker of startCPUMonitoring fires and
\* updateCPUUsage takes a sample
ServerTick(cpuUsage) ==
  /\ now < MaxTime
  /\ now' = now + 1
  /\ srv' = [srv EXCEPT !.history = updateCPUUsage(@, cpuUsage, srv.window),
                        !.log = Append(@, cpuUsage)]
  /\ UNCHANGED <<c, serverFrame>>

\* the steps of the goroutines that serve requests
Serve == \E q \in Requests : Intercept(q) \/ Permit(q) \/ Handle(q) \/ Deferred(q)

\* the step of the monitoring goroutine
Monitor == \E cpuUsage \in Loads : ServerTick(cpuUsage)

NextServer ==
  \/ \E q \in Requests, op \in Ops, ctx \in {"live", "done"} : Arrive(q, op, ctx)
  \/ \E q \in Requests : Cancel(q)
  \/ Serve
  \/ Monitor

\* a goroutine that can take a step takes one, and the ticker keeps firing;
\* nothing makes a request arrive
SpecServer == InitServer /\ [][NextServer]_vars /\ WF_vars(Serve) /\ WF_vars(Monitor)

\* ------------------------------- AddNode, RemoveNode and Close on one Client
\* Two goroutines call AddNode, RemoveNode, Close and getConnection on one
\* Client.  AddNode and RemoveNode change the Ring under r.mu and the map
\* c.connections under c.connMutex, one after the other, so each is two
\* critical sections with the dial between them; Close and getConnection are
\* one critical section.  grpc.Dial does not block and does not connect: it
\* returns a handle for every well-formed address, and the addresses here are.
MaxHandles  == 2                  \* open handles per node id, at most
RegistryIds == {"n1", "n2"}

\* the call a goroutine is in: its step, and what the call found in the
\* map (AddNode and RemoveNode: an entry for id; getConnection: the handle)
Reg(op, id, step, ok) == [op |-> op, id |-> id, step |-> step, ok |-> ok]
NoReg == Reg("none", NoNode, "none", FALSE)

\* the goroutine is in no call
Resting(g) == jobs[g].step \in {"none", "done"}

\* the calls of an AddNode that hold a handle they have dialed and not stored
Dialed(id) == {g \in Goroutines : jobs[g] = Reg("AddNode", id, "store", FALSE)}

\* conn.Close() for the handles of the ids in closed
CloseHandles(hs, closed) == [id \in NodeIds |-> IF id \in closed THEN hs[id] - 1 ELSE hs[id]]

registryFrame == <<cacheVars, histVars, muVars, score, owned, again, lockVars, store, config,
                   call, ret, hedge, scene, srv>>

InitRegistry ==
  /\ c = NewCache(0)
  /\ now = 1
  /\ last = Call("none")
  /\ live = [k \in Keys |-> None]
  /\ run = <<>>
  /\ Idle
  /\ NoRing
  /\ RingIdle
  /\ conns = {}
  /\ store = [id \in NodeIds |-> NewCache(0)]
  /\ config = [readQuorum |-> 1, writeQuorum |-> 1, hedged |-> FALSE, hedgeRatio |-> 0]
  /\ call = NoCall
  /\ ret = NoReturn
  /\ hedge = NoHedge
  /\ scene = NoScene
  /\ srv = NoServer
  /\ jobs = [g \in Goroutines |-> NoReg]
  /\ handles = NoHandles

\* AddNode(id, addr): c.ring.AddNode(id, addr)
RegAddNode(g, id, addr) ==
  /\ Resting(g)
  /\ handles[id] + Cardinality({h \in Goroutines : jobs[h] = Reg("AddNode", id, "dial", FALSE)})
       < MaxHandles
  /\ nodes' = AddNode(nodes, id, addr)
  /\ jobs' = [jobs EXCEPT ![g] = Reg("AddNode", id, "dial", FALSE)]
  /\ UNCHANGED <<conns, handles, registryFrame>>

\* conn, err := grpc.Dial(addr, ...)
RegDial(g) ==
  /\ jobs[g].step = "dial"
  /\ handles' = [handles EXCEPT ![jobs[g].id] = @ + 1]
  /\ jobs' = [jobs EXCEPT ![g].step = "store"]
  /\ UNCHANGED <<nodes, conns, registryFrame>>

\* c.connMutex.Lock(); c.connections[id] = conn; c.connMutex.Unlock(): the
\* handle that the map held for id, if any, is dropped as it is
RegStore(g) ==
  /\ jobs[g].step = "store"
  /\ conns' = conns \union {jobs[g].id}
  /\ jobs' = [jobs EXCEPT ![g].step = "done", ![g].ok = jobs[g].id \in conns]
  /\ UNCHANGED <<nodes, handles, registryFrame>>

\* RemoveNode(id): c.ring.RemoveNode(id)
RegRemoveNode(g, id) ==
  /\ Resting(g)
  /\ nodes' = RemoveNode(nodes, id)
  /\ jobs' = [jobs EXCEPT ![g] = Reg("RemoveNode", id, "delete", FALSE)]
  /\ UNCHANGED <<conns, handles, registryFrame>>

\* c.connMutex.Lock(); if conn, exists := c.connections[id]; exists {
\* conn.Close(); delete(c.connections, id) }; c.connMutex.Unlock()
RegDelete(g) ==
  LET id == jobs[g].id IN
  /\ jobs[g].step = "delete"
  /\ conns' = conns \ {id}
  /\ handles' = CloseHandles(handles, conns \cap {id})
  /\ jobs' = [jobs EXCEPT ![g].step = "done", ![g].ok = id \in conns]
  /\ UNCHANGED <<nodes, registryFrame>>

\* Close(): every handle of the map is closed and its entry deleted
RegClose(g) ==
  /\ Resting(g)
  /\ conns' = {}
  /\ handles' = CloseHandles(handles, conns)
  /\ jobs' = [jobs EXCEPT ![g] = Reg("Close", NoNode, "done", conns # {})]
  /\ UNCHANGED <<nodes, registryFrame>>

\* getConnection(id): the handle of the map, or the error "no connection to
\* node"; nothing is dialed
RegGetConnection(g, id) ==
  /\ Resting(g)
  /\ jobs' = [jobs EXCEPT ![g] = Reg("getConnection", id, "done", id \in conns)]
  /\ UNCHANGED <<nodes, conns, handles, registryFrame>>

\* AddNode and RemoveNode calls, step by step
NextChurn ==
  \/ \E g \in Goroutines, id \in RegistryIds, addr \in Addresses : RegAddNode(g, id, addr)
  \/ \E g \in Goroutines : RegDial(g)
  \/ \E g \in Goroutines : RegStore(g)
  \/ \E g \in Goroutines, id \in RegistryIds : RegRemoveNode(g, id)
  \/ \E g \in Goroutines : RegDelete(g)

NextRegistry ==
  \/ NextChurn
  \/ \E g \in Goroutines : RegClose(g)
  \/ \E g \in Goroutines, id \in RegistryIds : RegGetConnection(g, id)

SpecChurn    == InitRegistry /\ [][NextChurn]_vars
SpecRegistry == InitRegistry /\ [][NextRegistry]_vars

\* ------------------------------------------------- a node joins the Client
\* Two or three servers, a Client with ReadQuorum = WriteQuorum = 2 that has
\* added them; every server answers every RPC.  The Client sets the key, adds
\* one more node, whose server has just started and holds nothing, and gets
\* the key.  The calls are made one after the other.
NewNode == "n4"                   \* the id of the node that joins
AllIds  == NodeIds \union {NewNode}

\* the scores of ClientKey on the nodes there are, the new one included
JoinRows == {row \in [AllIds -> Scores] : [id \in NodeIds |-> row[id]] \in ClientRows}

\* the ids of the Client's ring once the new node is added
Joined == Members(nodes) \union {NewNode}

\* Owners(key, n) on the ring with the new node: the results the call can have
OwnersJoined(key, n) ==
  LET m == IF n > Cardinality(Joined) THEN Cardinality(Joined) ELSE n
  IN  {Result(SubSeq(s, 1, m), FALSE, FALSE) : s \in SortedByScore(Joined, key)}

\* the servers' Caches, the empty one of the new node included
StoreJoined == [id \in AllIds |-> IF id = NewNode THEN NewCache(ReplicaCapacity) ELSE store[id]]

InitJoin ==
  /\ c = NewCache(0)
  /\ now = 1
  /\ last = Call("none")
  /\ live = [k \in Keys |-> None]
  /\ run = <<>>
  /\ Idle
  /\ \E out \in {{}} \union {{id} : id \in NodeIds} :
       nodes = [id \in NodeIds |-> IF id \in out THEN NoNode ELSE CHOOSE a \in Addrs : TRUE]
  /\ \E row \in JoinRows :
       score = [k \in RingKeys |-> IF k = ClientKey THEN row ELSE [id \in AllIds |-> 0]]
  /\ owned = RingCall("none")
  /\ again = Nothing
  /\ RingIdle
  /\ conns = Members(nodes)
  /\ store = [id \in NodeIds |-> NewCache(ReplicaCapacity)]
  /\ \E h \in BOOLEAN : config = [readQuorum |-> 2, writeQuorum |-> 2, hedged |-> h, hedgeRatio |-> 0]
  /\ call = NoCall
  /\ ret = NoReturn
  /\ hedge = NoHedge
  /\ scene = [NoScene EXCEPT !.step = "set1"]
  /\ srv = NoServer
  /\ jobs = NoJobs
  /\ handles = NoHandles

\* Client.AddNode(NewNode, addr): the ring and the connections have the node
\* from here on (scene.x)
JoinAdd ==
  /\ scene.step = "join"
  /\ scene' = [scene EXCEPT !.step = "get1", !.x = NewNode]
  /\ UNCHANGED <<conns, store, config, call, ret, hedge, ringVars, cacheVars, histVars, muVars,
                 lockVars, srv, jobs, handles>>

\* Client.Get(key) after the node was added
JoinGet ==
  /\ scene.step = "get1"
  /\ \E r \in OwnersJoined(ClientKey, config.readQuorum) :
       scene' = [scene EXCEPT !.step = "done",
                              !.get1 = GetInTurn(conns \union {NewNode}, StoreJoined, r.list, 1,
                                                 ClientKey, now, config.hedged)]
  /\ UNCHANGED <<conns, store, config, call, ret, hedge, ringVars, cacheVars, histVars, muVars,
                 lockVars, srv, jobs, handles>>

NextJoin ==
  \/ SceneEarlier
  \/ SceneSet("set1", "join", "v1")
  \/ JoinAdd
  \/ JoinGet

SpecJoin == InitJoin /\ [][NextJoin]_vars

C2_SizeWithinCapacity ==
  /\ \A g \in Procs :
       pc[g] = "unlock" =>
         /\ c.capacity >= 1 => (0 <= c.size /\ c.size <= c.capacity)
         /\ c = Alone(snap[g], req[g])
  /\ (mu = Free /\ c.capacity >= 1) => (0 <= c.size /\ c.size <= c.capacity)

\* C2 witness: a Set by one goroutine, after another goroutine's operation,
\* has evicted and is about to unlock a full cache
C2_Witness ==
  \E g \in Procs :
    /\ pc[g] = "unlock" /\ req[g].op = "Set"
    /\ c.capacity = 2 /\ c.size = 2
    /\ snap[g].size = 2 /\ snap[g].entries[req[g].key] = Nil

\* C3: after Set(k, v, ttl), a Get(k) issued before k is evicted, deleted,
\* cleared or expired returns (v, true), v being the value of the latest Set of k.
C3_GetReturnsLatestSet ==
  [][last'.op = "Get" =>
       \A k \in Keys :
         (OpGet(k) /\ live[k] # None /\ ~Passed(live[k].e, now))
           => (last'.ok /\ last'.rv = live[k].v)]_vars

\* C3 witness: a Get returned v2 from a cache that holds two keys, the other with v1
C3_Witness ==
  /\ last.op = "Get" /\ last.ok /\ last.rv = "v2"
  /\ c.size = 2 /\ c.mem[c.head].Value = "v2" /\ c.mem[c.tail].Value = "v1"
  /\ live[c.mem[c.head].Key].v = "v2"

\* C4: from an empty cache of capacity C, after N Sets of N distinct keys with
\* no expiry and no Get or Delete in between, the keys present are exactly the
\* last min(N, C) keys inserted.
C4_LastInsertedSurvive ==
  run # Broken => Indexed(c) = Range(LastN(run, Min(Len(run), c.capacity)))

\* C4 witness: three distinct keys inserted into a cache of capacity 2
C4_Witness ==
  /\ run # Broken /\ Len(run) = 3 /\ c.capacity = 2 /\ last.op = "Set"

\* C5: the recency list is the abstract LRU sequence: a Get hit and a Set move
\* the key to the front; a Set that makes the sequence longer than the capacity
\* drops its last key, the one touched longest ago; a removal (Delete, expiry
\* on Get, Cleanup) takes the key out and keeps the order of the others.
C5_ListIsLruSequence ==
  [][/\ last'.op = "Get" =>
          \A k \in Keys :
            OpGet(k) =>
              Order(c') = IF last'.ok THEN <<k>> \o Without(Order(c), k)
                          ELSE Without(Order(c), k)
     /\ last'.op = "Set" =>
          LET moved == <<last'.key>> \o Without(Order(c), last'.key)
          IN  Order(c') = IF Len(moved) > c.capacity THEN Front(moved) ELSE moved
     /\ last'.op = "Delete" =>
          \A k \in Keys : OpDelete(k) => Order(c') = Without(Order(c), k)
     /\ last'.op = "Cleanup" =>
          Order(c') = SelectSeq(Order(c), LAMBDA k : ~Passed(ExpiryAt(c, k), now))
     /\ last'.op = "Clear" => Order(c') = <<>>
     /\ last'.op = "Tick" => Order(c') = Order(c)]_vars

\* C5 witness: a Set of a new key into a full cache of capacity 2, after a Get
\* had moved the older key to the front
C5_Witness ==
  /\ last.op = "Set" /\ c.capacity = 2 /\ c.size = 2 /\ run = Broken
  /\ live[c.mem[c.head].Key] # None /\ live[c.mem[c.tail].Key] # None
  /\ Cardinality({k \in Keys : live[k] # None}) = 2
  /\ c.mem[c.tail].Key < c.mem[c.head].Key

\* C6: after Set(k, v, ttl) with ttl > 0 at time t, a Get(k) strictly later than
\* t + ttl returns found = false and removes the entry from index and list (size
\* one less); a Get not later than t + ttl returns (v, true).
C6_GetHonoursTtl ==
  [][last'.op = "Get" =>
       \A k \in Keys :
         (OpGet(k) /\ live[k] # None /\ live[k].e # NoDeadline)
           => IF now > live[k].e
              THEN /\ ~last'.ok /\ last'.rv = NilVal
                   /\ k \notin Indexed(c') /\ k \notin Range(Order(c'))
                   /\ c'.size = c.size - 1
              ELSE last'.ok /\ last'.rv = live[k].v]_vars

\* C6 witness: a Get at the very instant t + ttl hit
C6_Witness ==
  /\ last.op = "Get" /\ last.ok
  /\ c.head # Nil /\ c.mem[c.head].ExpiresAt = now

C8_DeleteReportsPresence ==
  [][last'.op = "Delete" =>
       \A k \in Keys :
         OpDelete(k) =>
           /\ last'.ok = (k \in Indexed(c))
           /\ IF k \in Indexed(c)
              THEN /\ Indexed(c') = Indexed(c) \ {k}
                   /\ c'.size = c.size - 1
                   /\ Order(c') = Without(Order(c), k)
              ELSE c' = c]_vars

\* C8 witness: a Delete returned true and left one entry behind
C8_Witness == last.op = "Delete" /\ last.ok /\ c.size = 1

C10_OwnersWellFormed ==
  (owned.op = "Owners" /\ owned.n >= 0) =>
    LET r == owned.result.list IN
    /\ ~owned.result.panics
    /\ NoDup(r) /\ Range(r) \subseteq Members(nodes)
    /\ Len(r) = Min(owned.n, Cardinality(Members(nodes)))
    /\ \A i \in 1..(Len(r) - 1) : hash(owned.key, r[i]) >= hash(owned.key, r[i + 1])

\* the members of the ring have pairwise different scores for key
NoTie(key) ==
  \A x, y \in Members(nodes) : x # y => hash(key, x) # hash(key, y)

\* two calls agree when no two members have the same score for the key
C10_SameResultWithoutTie ==
  (owned.op = "Owners" /\ again # Nothing /\ NoTie(owned.key)) => again[1] = owned.result

\* C10: for every membership M, key k and n >= 0, Owners(k, n) returns pairwise
\* distinct members of M, exactly min(n, |M|) of them, in descending order of
\* score, and two calls with the same M, k and n return the same list in the
\* same order.
C10_OwnersDeterministic ==
  /\ C10_OwnersWellFormed
  /\ (owned.op = "Owners" /\ owned.n >= 0 /\ again # Nothing) => again[1] = owned.result

\* C10 witness: two calls of Owners(k, 2) in a row on three members, two of
\* them with the same score for k, returned different lists
C10_Witness ==
  /\ owned.op = "Owners" /\ owned.n = 2 /\ again # Nothing
  /\ Cardinality(Members(nodes)) = 3
  /\ ~NoTie(owned.key)
  /\ again[1] # owned.result

\* the full owner orders of key over the membership ns
FullOrders(ns, key) == {r.list : r \in Owners(ns, key, Cardinality(NodeIds))}
\* the primary owner of an owner order
Primary(list) == IF list = <<>> THEN NoNode ELSE list[1]
\* x joins or leaves the membership M: the order without x is the order over
\* M, and the primary differs exactly when x beats every node of M
SameButFor(with, without, key) ==
  LET x == CHOOSE id \in Members(with) \ Members(without) : TRUE IN
  \A a \in FullOrders(with, key), b \in FullOrders(without, key) :
    /\ Without(a, x) = b
    /\ (Primary(a) # Primary(b)) =
         (\A y \in Members(without) : hash(key, x) > hash(key, y))
\* no two of the ids have the same score for key
Untied(ids, key) == \A x, y \in ids : x # y => hash(key, x) # hash(key, y)

\* what holds of C11 in the code: the same statement for the keys on which no
\* two nodes of M or x have the same score
C11_StableWithoutTie ==
  [][\A key \in RingKeys :
       /\ (owned'.op = "AddNode" /\ Members(nodes') # Members(nodes)
             /\ Untied(Members(nodes'), key))
            => SameButFor(nodes', nodes, key)
       /\ (owned'.op = "RemoveNode" /\ Members(nodes') # Members(nodes)
             /\ Untied(Members(nodes), key))
            => SameButFor(nodes, nodes', key)]_vars

\* C11: for every membership M, key k and node x not in M, the full owner
\* order of k over M with x added, x deleted from it, is the full owner order
\* of k over M (on AddNode, and symmetrically on RemoveNode), and the primary
\* owner of k changes on AddNode(x) exactly when the score of x for k is
\* greater than the score of every node of M.
C11_OrderStableUnderChange ==
  [][\A key \in RingKeys :
       /\ (owned'.op = "AddNode" /\ Members(nodes') # Members(nodes))
            => SameButFor(nodes', nodes, key)
       /\ (owned'.op = "RemoveNode" /\ Members(nodes') # Members(nodes))
            => SameButFor(nodes, nodes', key)]_vars

\* C11 witness: AddNode has added a third node, and the three have the same
\* score for k1: the node added ties with the primary owner among the others
C11_Witness ==
  /\ owned.op = "AddNode" /\ Cardinality(Members(nodes)) = 3
  /\ \A x, y \in NodeIds : hash("k1", x) = hash("k1", y)

\* id is among the n best of membership m for key, however equal scores fall
RanksInTop(id, m, key, n) ==
  Cardinality({y \in Members(m) \ {id} : hash(key, y) >= hash(key, id)}) < n

\* C12: an Owners(k, n) call that runs while AddNode and RemoveNode calls run
\* returns what Owners(k, n) returns on one membership the ring had between
\* the start and the end of the call, namely the one it has when the call
\* ends: no duplicate, no node that is not a member, and no miss of a member
\* that ranks in the top n.
C12_OwnersSeesOneMembership ==
  \A p \in RingProcs :
    (rpc[p] = "unlock" /\ rreq[p].op = "Owners") =>
      LET r == rreq[p].result IN
      /\ r \in Owners(nodes, rreq[p].key, rreq[p].n)
      /\ NoDup(r.list)
      /\ Range(r.list) \subseteq Members(nodes)
      /\ \A id \in Members(nodes) :
           RanksInTop(id, nodes, rreq[p].key, rreq[p].n) => id \in Range(r.list)

\* C12 witness: Owners is about to return two of three members after the map
\* was written since the call began, while the other goroutine waits for the
\* writer lock
C12_Witness ==
  \E p, q \in RingProcs :
    /\ rpc[p] = "unlock" /\ rreq[p].op = "Owners" /\ rreq[p].n = 3
    /\ Len(rreq[p].result.list) = 2 /\ rmoved[p]
    /\ rpc[q] = "lock" /\ rreq[q].op = "RemoveNode"
\* a Set or Delete of the Client is collecting its outcomes
Writing == call.op \in {"Set", "Delete"}

\* the step by which a Set or Delete returns
WriteReturns == Writing /\ call' = NoCall

\* C13: Client.Set and Client.Delete dispatch to R = Owners(key, writeQuorum);
\* the replicas are written in any order.  The call returns success iff the
\* successful outcomes are at least W = writeQuorum; when the W-th success has
\* been collected no outcome is outstanding any more, so success is returned
\* as soon as W replicas have succeeded; the quorum error is returned only
\* when all |R| outcomes have been collected and fewer than W succeeded.
C13_SuccessIffQuorum ==
  /\ [](Writing =>
          /\ \E r \in Owners(nodes, ClientKey, config.writeQuorum) : call.owners = r.list
          /\ call.i + Len(call.results) + Cardinality(call.todo) = Len(call.owners)
          /\ call.successes <= call.i
          /\ call.successes >= config.writeQuorum
               => call.i = Len(call.owners) /\ call.todo = {} /\ call.results = <<>>)
  /\ [][WriteReturns =>
          /\ ret'.op = call.op
          /\ ret'.err = "" <=> call.successes >= config.writeQuorum
          /\ ret'.err # "" =>
               /\ ret'.err = QuorumError(call.op)
               /\ call.i = Len(call.owners)
               /\ call.successes < config.writeQuorum]_vars

\* a Set with W = 2 on three nodes has collected its second success
C13_Witness ==
  /\ call.op = "Set"
  /\ config.writeQuorum = 2
  /\ Cardinality(Members(nodes)) = 3
  /\ call.successes = 2

Answered == {id \in Range(call.owners) : call.answers[id] \in {"", "delete operation failed"}}

\* C15: in Client.Delete an owner that answers Deleted = false counts as a
\* success towards the quorum: the call returns nil iff at least W owners
\* answered the RPC, whether they held the key or not.
C15_AbsentCountsAsSuccess ==
  [][WriteReturns /\ call.op = "Delete" =>
       (ret'.err = "" <=> Cardinality(Answered) >= config.writeQuorum)]_vars

\* a Delete with W = 2 has collected two answers Deleted = false
C15_Witness ==
  /\ call.op = "Delete"
  /\ config.writeQuorum = 2
  /\ Len(call.owners) = 2
  /\ call.i = 2
  /\ \A id \in Range(call.owners) : call.answers[id] = "delete operation failed"

\* the last attempt of the Get in progress
LastTried == call.tried[Len(call.tried)]

\* the first RPC of the last attempt of the Get in progress was answered with Found = false
AnsweredNotFound ==
  /\ call.op = "Get"
  /\ call.tried # <<>>
  /\ LastTried.first = "key not found"

\* C16: in Client.Get an answer Found = false is definitive: the attempt does
\* not wait for the hedge or the deadline (it ends with that answer, not with
\* the deadline error), no further replica is contacted, and the call returns
\* not-found, which is not an error.
C16_NotFoundIsDefinitive ==
  /\ [](AnsweredNotFound => LastTried.err = "key not found")
  /\ [][AnsweredNotFound =>
          /\ call'.op = "Get" => call'.tried = call.tried
          /\ call' = NoCall => ret'.err = "" /\ ret'.value = NilVal]_vars

\* the first of two owners has answered Found = false
C16_Witness ==
  /\ AnsweredNotFound
  /\ Len(call.tried) = 1
  /\ Len(call.owners) = 2
  /\ call.owners[2] \in conns

\* the errors of an attempt that did not reach the replica or got no answer in time
Failures == {"transport error", "deadline exceeded", "no connection"}

\* Client.Get goes through R = Owners(key, readQuorum) in order, moves on from
\* an owner only after an attempt that ended with one of errs, ends with the
\* value of the first attempt that returned one, and fails only after an
\* attempt on every owner: the attempts made so far
GetSoFar(errs) ==
  call.op = "Get" =>
    /\ \E r \in Owners(nodes, ClientKey, config.readQuorum) : call.owners = r.list
    /\ Len(call.tried) = call.i
    /\ call.i <= Len(call.owners)
    /\ \A j \in 1..Len(call.tried) :
         /\ call.tried[j].id = call.owners[j]
         /\ call.calls[call.owners[j]] = 1
         /\ j < Len(call.tried) => call.tried[j].err \in errs
    /\ \A j \in (Len(call.tried) + 1)..Len(call.owners) : call.calls[call.owners[j]] = 0
    /\ call.done <=> (call.tried # <<>> /\ LastTried.err = "")

\* the same: the step by which the Get returns
GetEnds(errs) ==
  call.op = "Get" /\ call' = NoCall =>
    /\ ret'.op = "Get"
    /\ ret'.err = "" <=> call.done
    /\ ret'.err = "" => ret'.value = call.value /\ ret'.value # NilVal
    /\ ret'.err # "" =>
         /\ Len(call.tried) = Len(call.owners)
         /\ \A j \in 1..Len(call.tried) : call.tried[j].err \in errs

\* C17: Client.Get tries the replicas of R = Owners(key, readQuorum) one after
\* another in HRW order; R[i+1] is contacted only after the attempt on R[i]
\* ended with a transport or deadline error; the first replica that returns a
\* value ends the call with that value; the call fails only after every
\* replica of R has been tried.
C17_NextOnlyAfterFailure == [](GetSoFar(Failures)) /\ [][GetEnds(Failures)]_vars

\* the same, where an attempt answered Found = false moves on to the next
\* replica as well
C17_NextAfterAnyError ==
  /\ [](GetSoFar(Failures \union {"key not found"}))
  /\ [][GetEnds(Failures \union {"key not found"})]_vars

\* the second owner is tried after the first has answered Found = false
C17_Witness ==
  /\ call.op = "Get"
  /\ Len(call.tried) = 2
  /\ call.tried[1].err = "key not found"
  /\ call.done

\* C18: with hedgeTimeout > 0 the second attempt is issued after
\* hedgeTimeout/2, and when it delivers a value before the deadline while the
\* first attempt is still outstanding, getFromNode returns a value, never the
\* deadline error.
C18_HedgeValueWins ==
  /\ hedge.second # "none" => hedge.clock >= Half
  /\ hedge.pc = "returned" /\ hedge.raced => hedge.result = "value"

\* the first attempt has ended at the deadline and the select finds both the
\* hedge's value and ctx.Done()
C18_Witness ==
  /\ hedge.pc = "select"
  /\ hedge.raced
  /\ hedge.ch # <<>>
  /\ hedge.first = "deadline exceeded"

\* C19: a replica attempt of Client.Get issues at most two Get RPCs; both are
\* bound to the deadline of the attempt, so none is outstanding after it; the
\* hedge goroutine never waits to deliver its value and always ends, also
\* when the first attempt has returned already.
C19_HedgeBounded ==
  /\ [](/\ hedge.rpcs <= 2
        /\ hedge.clock > HedgeTimeout => hedge.first # "out" /\ hedge.second # "out"
        /\ hedge.hpc = "send" => Len(hedge.ch) < ChanCap)
  /\ (hedge.pc # "idle") ~> (hedge.hpc = "end")

\* the hedge goroutine has a value to deliver after getFromNode returned the
\* value of the first attempt
C19_Witness ==
  /\ hedge.hpc = "send"
  /\ hedge.pc = "returned"
  /\ hedge.first = "value"
  /\ hedge.rpcs = 2

\* what the scenario's calls have returned so far is what C20 says
AsExpected ==
  /\ scene.set1 \in {NotYet, Got("v1", "")}
  /\ scene.get1 \in {NotYet, Got("v1", "")}
  /\ scene.set2 \in {NotYet, Got("v2", "")}
  /\ scene.get2 \in {NotYet, Got("v2", "")}

\* C20: three nodes, read and write quorum 2: after Client.Set(k, v) has
\* succeeded and a node x has been stopped and removed with RemoveNode(x),
\* Client.Get(k) returns v; the following Client.Set(k, v2) succeeds and the
\* next Client.Get(k) returns v2; for every key and every x.
C20_ReadsTheValueAfterRemoval == AsExpected

\* the same for the keys on which no two of the three nodes have the same score
C20_HoldsWithoutTie == Untied(NodeIds, ClientKey) => AsExpected

\* the scenario has run to its end on a key with a tie, after an earlier Set
C20_Witness ==
  /\ scene.step = "done"
  /\ scene.earlier = 1
  /\ ~Untied(NodeIds, ClientKey)
  /\ scene.get2 = Got("v2", "")

\* the last call was a Get of a key whose value is known, and returned it
ReadsWritten ==
  ret.op = "Get" /\ scene.written # NotYet => ret.err = "" /\ ret.value = scene.written.value

\* C21: three nodes, read and write quorum 2, one node unreachable but still
\* in the membership: every Client.Set and Client.Delete still returns
\* success, and every Client.Get of a key written before returns its value.
C21_AvailableWithOneNodeDown ==
  scene.step = "after" =>
    /\ ret.op \in {"Set", "Delete"} => ret.err = ""
    /\ ReadsWritten

\* what holds of it in the code: the Get of a written key on which no two
\* nodes have the same score returns the value, before and after the failure
C21_ReadsSurviveWithoutTie == Untied(NodeIds, ClientKey) => ReadsWritten

\* a Set after the failure of a node has returned the quorum error
C21_Witness ==
  /\ scene.step = "after"
  /\ ret.op = "Set"
  /\ ret.err = QuorumError("Set")
  /\ Untied(NodeIds, ClientKey)

\* C27: while the membership is empty, a Client.Get, Client.Set or
\* Client.Delete returns "no nodes available" at once: no fan-out is started,
\* no RPC is sent and no server's Cache changes.
C27_EmptyMembershipFailsAtOnce ==
  [][call = NoCall /\ Members(nodes) = {} =>
       /\ call' = NoCall
       /\ store' = store
       /\ ret' # ret /\ ret'.op \in {"Get", "Set", "Delete"} =>
            ret'.err = "no nodes available" /\ ret'.value = NilVal]_vars

\* a Delete on the empty membership has returned, after nodes had been added,
\* written and removed again
C27_Witness ==
  /\ Members(nodes) = {}
  /\ ret = Return("Delete", "no nodes available")
  /\ \E id \in NodeIds : Get(store[id], CacheKey(ClientKey), now).found

\* C30: with fewer nodes in the membership than the write quorum, a Set or
\* Delete that every node of the membership acknowledged returns success.
C30_QuorumShrinksWithMembership ==
  [][/\ WriteReturns
     /\ Members(nodes) # {}
     /\ Cardinality(Members(nodes)) < config.writeQuorum
     /\ \A id \in Members(nodes) : call.answers[id] = ""
     => ret'.err = ""]_vars

\* the only node of the membership has acknowledged a Set with W = 2
C30_Witness ==
  /\ call.op = "Set"
  /\ config.writeQuorum = 2
  /\ Cardinality(Members(nodes)) = 1
  /\ call.i = Len(call.owners)
  /\ \A id \in Members(nodes) : call.answers[id] = ""

\* the requests whose handler runs or has returned without the permit released yet
Running == {q \in Requests : srv.rq[q].pc \in {"handler", "release"}}

\* the step by which request q leaves the place pc of the interceptor
Leaves(q, at) == srv.rq[q].pc = at /\ srv'.rq[q].pc # at

\* the step by which request q comes back with error err decided at "by",
\* without a permit taken or given back and without a change of the Cache
Rejected(q, err, by) ==
  /\ srv'.rq[q] = NoRpc
  /\ srv'.reply = [err |-> err, by |-> by]
  /\ srv'.free = srv.free
  /\ c' = c

\* C23: the interceptor evaluates the overload gate before the concurrency
\* gate: a request reaches the semaphore only from the overload gate found
\* open, and only a request at the semaphore takes a permit.  A request that
\* finds the overload gate closed is rejected with UNAVAILABLE and takes no
\* permit; a request that finds no free permit is rejected with UNAVAILABLE
\* in its next step, which it can always take (it never waits); in both
\* rejections the handler does not run and the Cache is unchanged.
C23_OverloadGateThenPermit ==
  /\ [](\A q \in Requests : srv.rq[q].pc = "permit" => ENABLED Permit(q))
  /\ [][/\ \A q \in Requests :
            /\ Leaves(q, "gate") /\ srv.rq[q].ctx = "live"
                 /\ shouldShedLoad(srv.history, srv.threshold)
                 => Rejected(q, "Unavailable: server overloaded", "gate")
            /\ srv.rq[q].pc # "permit" /\ srv'.rq[q].pc = "permit"
                 => srv.rq[q].pc = "gate" /\ ~shouldShedLoad(srv.history, srv.threshold)
            /\ Leaves(q, "permit") /\ srv.free = 0
                 => Rejected(q, "Unavailable: too many concurrent requests", "permit")
        /\ srv'.free < srv.free => \E q \in Requests : Leaves(q, "permit")]_vars

\* a request was rejected at the semaphore while the handler of the other
\* one runs with the only permit, the overload gate having been open on a
\* window that is not empty
C23_Witness ==
  /\ srv.reply = [err |-> "Unavailable: too many concurrent requests", by |-> "permit"]
  /\ srv.free = 0
  /\ \E q \in Requests : srv.rq[q].pc = "handler"
  /\ srv.history # <<>>
  /\ c.size = 1

\* C24: the handlers that run are never more than max_concurrent, and the
\* free permits plus the running handlers are max_concurrent at all times; a
\* request that was admitted gives back exactly one permit when its handler
\* has returned; a request that comes to the semaphore while fewer than
\* max_concurrent handlers run is admitted.
C24_PermitsBalance ==
  /\ [](/\ srv.free + Cardinality(Running) = srv.max
        /\ Cardinality(Running) <= srv.max
        /\ srv.free >= 0)
  /\ [][\A q \in Requests :
          /\ Leaves(q, "handler") => srv'.rq[q].pc = "release" /\ srv'.free = srv.free
          /\ Leaves(q, "release") => srv'.rq[q] = NoRpc /\ srv'.free = srv.free + 1
          /\ Leaves(q, "permit") /\ Cardinality(Running) < srv.max
               => srv'.rq[q].pc = "handler" /\ srv'.free = srv.free - 1]_vars

\* two handlers run with max_concurrent = 2
C24_Witness ==
  /\ srv.max = 2
  /\ \A q \in Requests : srv.rq[q].pc = "handler"

\* the sum of the distances of the samples above the threshold
RECURSIVE Excess(_, _)
Excess(xs, threshold) ==
  IF xs = <<>> THEN 0 ELSE (Head(xs) - threshold) + Excess(Tail(xs), threshold)

\* C25: the overload gate rejects a request exactly when the window is not
\* empty and the mean of its samples is strictly greater than the threshold
\* (a mean equal to the threshold and an empty window let the request pass);
\* after every sample the window holds the most recent min(samples taken, W)
\* samples in the order of their arrival, W being the window in seconds.
C25_GateClosedIffMeanAbove ==
  /\ [](srv.history = LastN(srv.log, Min(Len(srv.log), srv.window)))
  /\ [][\A q \in Requests :
          Leaves(q, "gate") /\ srv.rq[q].ctx = "live" =>
            /\ srv'.rq[q].pc \in {"idle", "permit"}
            /\ srv'.rq[q].pc = "idle"
                 <=> srv.history # <<>> /\ Excess(srv.history, srv.threshold) > 0]_vars

\* a request has passed the gate on a full window of two samples whose mean
\* is the threshold
C25_Witness ==
  /\ srv.window = 2
  /\ srv.history = <<0, 2>>
  /\ Excess(srv.history, srv.threshold) = 0
  /\ \E q \in Requests : srv.rq[q].pc = "permit"

\* C26: a Get, Set, Delete or Health request whose ctx is done when the
\* interceptor looks at it fails with CANCELED, takes no permit and leaves
\* the Cache unchanged.
C26_DoneCtxIsCanceled ==
  [][\A q \in Requests :
       Leaves(q, "gate") /\ srv.rq[q].ctx # "live"
         => Rejected(q, "Canceled: request canceled", "gate")]_vars

\* a request came back CANCELED from the interceptor while the Cache holds
\* an entry and the handler of the other request runs
C26_Witness ==
  /\ srv.reply = [err |-> "Canceled: request canceled", by |-> "gate"]
  /\ c.size = 1
  /\ \E q \in Requests : srv.rq[q].pc = "handler"

\* the Cache of the Server holds an entry whose expiry has passed
HasExpired ==
  \E k \in Keys : c.entries[k] # Nil /\ Expired(c.mem[c.entries[k]].ExpiresAt, now)

\* C29: on a running node an entry that has expired is removed in the end,
\* whether or not a request for its key arrives.
C29_ExpiredEntriesAreSwept == HasExpired ~> ~HasExpired

\* the Cache holds an expired entry and no request is inside the Server
C29_Witness ==
  /\ HasExpired
  /\ \A q \in Requests : srv.rq[q] = NoRpc

\* goroutine g has called Set and then Get of a key that no other goroutine uses
AloneOnKey(g) ==
  /\ jobs[g].step = "end"
  /\ \A h \in Goroutines \ {g} : jobs[h].key # jobs[g].key

\* the Get of goroutine g returned the value of its Set
ReadOwnWrite(g) == jobs[g].got = Got(jobs[g].value, "")

C28_ReplicasAgreeAfterSets ==
  (\A g \in Goroutines : jobs[g].step \in {"between", "get", "end"} /\ jobs[g].key = ClientKey)
    => \A r \in Owners(nodes, ClientKey, config.writeQuorum) :
         \A a, b \in Range(r.list) :
           Get(store[a], CacheKey(ClientKey), now).value
             = Get(store[b], CacheKey(ClientKey), now).value

\* two Sets of one key without a score tie have both returned success, on
\* Caches that evict nothing
C28_Witness ==
  /\ \A g \in Goroutines : jobs[g].step = "between" /\ jobs[g].key = ClientKey
  /\ Untied(NodeIds, ClientKey)
  /\ \A id \in NodeIds : store[id].capacity = Cardinality(RingKeys)

\* the node ids in lexicographic order
IdOrder == <<"n1", "n2", "n3">>
IdBefore(x, y) == \E i, j \in 1..Len(IdOrder) : i < j /\ IdOrder[i] = x /\ IdOrder[j] = y

\* C31: of two nodes with the same score for the key, Owners returns the one
\* with the lexicographically smaller id first, so that the owner order is
\* fixed by the membership and the key.
C31_TiesByNodeId ==
  (owned.op = "Owners" /\ ~owned.result.panics) =>
    LET r == owned.result.list IN
    \A i \in 1..(Len(r) - 1) :
      hash(owned.key, r[i]) = hash(owned.key, r[i + 1]) => IdBefore(r[i], r[i + 1])

\* Owners has returned all three nodes, which have the same score for the
\* key, in the order of their ids
C31_Witness ==
  /\ owned.op = "Owners"
  /\ owned.result.list = IdOrder
  /\ \A x, y \in NodeIds : hash(owned.key, x) = hash(owned.key, y)

\* C32: AddNode, RemoveNode, GetNodes, NodeCount and Owners end without a
\* panic for every membership, key and n; Owners returns the empty list on
\* the empty ring and for n = 0, all members for n > |M|, and ends for
\* negative n too.
C32_RingNeverFails ==
  /\ ~owned.result.panics
  /\ owned.op = "Owners" =>
       /\ Members(nodes) = {} \/ owned.n = 0 => owned.result.list = <<>>
       /\ owned.n > NodeCount(nodes) => Range(owned.result.list) = Members(nodes)

\* Owners was called with a negative n on a ring of two nodes
C32_Witness ==
  /\ owned.op = "Owners"
  /\ owned.n < 0
  /\ NodeCount(nodes) = 2

\* C33: the membership is a set keyed by node id.  AddNode(id, addr) makes
\* id a member with address addr and leaves every other entry alone, so the
\* count grows by one for a new id and not at all for an id that is a
\* member; RemoveNode(id) removes id alone and changes nothing when id is no
\* member; NodeCount() and len(GetNodes()) are the number of members.
C33_MembershipIsASet ==
  /\ [](/\ owned.op = "NodeCount" => owned.n = Cardinality(Members(nodes))
        /\ owned.op = "GetNodes" =>
             /\ Len(owned.result.list) = Cardinality(Members(nodes))
             /\ Range(owned.result.list) = Members(nodes))
  /\ [][/\ owned'.op = "AddNode" =>
             /\ nodes'[owned'.id] = owned'.addr
             /\ \A x \in NodeIds \ {owned'.id} : nodes'[x] = nodes[x]
             /\ NodeCount(nodes') =
                  NodeCount(nodes) + (IF owned'.id \in Members(nodes) THEN 0 ELSE 1)
        /\ owned'.op = "RemoveNode" =>
             /\ Members(nodes') = Members(nodes) \ {owned'.id}
             /\ \A x \in NodeIds \ {owned'.id} : nodes'[x] = nodes[x]
             /\ owned'.id \notin Members(nodes) => nodes' = nodes]_vars

\* AddNode has given a member the other address while the other two nodes
\* are members too
C33_Witness ==
  /\ owned.op = "AddNode"
  /\ owned.addr = "a2"
  /\ NodeCount(nodes) = 3
  /\ \A x \in NodeIds \ {owned.id} : nodes[x] = "a1"

\* the write of the call in progress is in the Cache of replica id
Applied(id) ==
  LET held == Get(store[id], CacheKey(ClientKey), now) IN
  IF call.op = "Set" THEN held.found /\ held.value = call.value ELSE ~held.found

\* C34: a replica whose Set or Delete RPC succeeded holds the write while
\* the call collects its outcomes; the step by which the call returns, with
\* the quorum error or without, changes no server's Cache, and no step
\* changes one while no call is in progress: nothing is rolled back.
C34_NoRollback ==
  /\ [](Writing => \A id \in Range(call.owners) : call.answers[id] = "" => Applied(id))
  /\ [][/\ WriteReturns => store' = store
        /\ call = NoCall /\ call' = NoCall => store' = store]_vars

\* a Set on two owners has all its outcomes, one success and one failure:
\* one owner holds the value, the other holds nothing, and the call is
\* about to return the quorum error
C34_Witness ==
  /\ call.op = "Set"
  /\ Len(call.owners) = 2
  /\ call.i = Len(call.owners)
  /\ call.successes = 1
  /\ config.writeQuorum = 2
  /\ \E a, b \in Range(call.owners) :
       /\ call.answers[a] = "" /\ Applied(a)
       /\ ~Get(store[b], CacheKey(ClientKey), now).found

\* C35: with a hedge ratio of 0 a getFromNode issues no second attempt,
\* although the hedge timeout is positive.
C35_NoHedgeAtRatioZero ==
  config.hedgeRatio = 0 => hedge.second = "none" /\ hedge.rpcs <= 1

\* a getFromNode of a Client with hedge ratio 0 and a positive hedge timeout
\* has returned the value of its first attempt before the hedge goroutine woke
C35_Witness ==
  /\ config.hedgeRatio = 0
  /\ config.hedged
  /\ hedge.pc = "returned"
  /\ hedge.result = "value"
  /\ hedge.hpc = "sleep"
  /\ hedge.rpcs = 1

Removed == Indexed(c) \ Indexed(c')

\* C38: a Set takes at most one entry out, and one exactly when it inserts a
\* key that is not in the index into a cache whose size has reached its
\* capacity; the entry taken out is the tail of the list (the new entry
\* itself when the list was empty), whether it has expired or not and
\* whether or not other entries have expired.
C38_SetEvictsTailOnly ==
  [][last'.op = "Set" =>
       LET k    == last'.key
           full == c.entries[k] = Nil /\ c.size >= c.capacity IN
       /\ ~full => Removed = {} /\ c'.entries[k] # Nil
       /\ full /\ c.tail # Nil =>
            /\ Removed = {c.mem[c.tail].Key}
            /\ c'.entries[k] # Nil
            /\ c'.size = c.size
       /\ full /\ c.tail = Nil => c'.entries[k] = Nil /\ c'.size = 0]_vars

\* a Set into a cache of capacity 2 has evicted an entry that had not
\* expired while the entry it left in the cache has
C38_Witness ==
  /\ last.op = "Set"
  /\ c.capacity = 2
  /\ last.out.Key \notin {Nil, last.key}
  /\ ~Expired(last.out.ExpiresAt, now)
  /\ \E j \in Indexed(c) : Expired(ExpiryAt(c, j), now)

\* C36: every handle that was dialed and is open is the one the registry
\* holds for its id, or one that an AddNode in progress is about to store:
\* a handle that has left the registry has been closed.
C36_HandlesClosedOnLeaving ==
  \A id \in RegistryIds :
    handles[id] = (IF id \in conns THEN 1 ELSE 0) + Cardinality(Dialed(id))

\* The registry without the handles: getConnection changes nothing and finds
\* a handle exactly for the ids of the map, an id of the map has an open
\* handle unless the map was overwritten, RemoveNode of an id without entry
\* and Close of an empty map change neither the map nor a handle.
C36_RegistryLookup ==
  [][/\ \A g \in Goroutines :
          jobs'[g] # jobs[g] /\ jobs'[g].step = "done" /\ ~jobs'[g].ok =>
            /\ jobs'[g].op \in {"RemoveNode", "Close"} => conns' = conns /\ handles' = handles
            /\ jobs'[g].op = "getConnection" => jobs'[g].id \notin conns
     /\ \A g \in Goroutines :
          jobs'[g] # jobs[g] /\ jobs'[g].op = "getConnection" =>
            /\ jobs'[g].ok = (jobs'[g].id \in conns)
            /\ conns' = conns /\ handles' = handles /\ nodes' = nodes]_vars

\* an AddNode for an id that had a handle in the map has returned
C36_Witness ==
  \E g \in Goroutines : jobs[g] = Reg("AddNode", jobs[g].id, "done", TRUE)

\* C39: when no AddNode or RemoveNode call is in progress, the ids of the
\* ring are the ids that have a connection.
C39_RingMatchesRegistry ==
  (\A g \in Goroutines : Resting(g)) => Members(nodes) = conns

\* an AddNode of one id and a RemoveNode of the other, which had a
\* connection, have both returned
C39_Witness ==
  /\ jobs["g1"] = Reg("AddNode", "n1", "done", FALSE)
  /\ jobs["g2"] = Reg("RemoveNode", "n2", "done", TRUE)
  /\ Members(nodes) = {"n1"}
  /\ conns = {"n1"}

\* the Get after the node was added returned the value that was set
ReadAfterJoin ==
  scene.step = "done" /\ scene.x = NewNode /\ scene.set1 = Got("v1", "") =>
    scene.get1 = Got("v1", "")

\* three nodes the Client had before have the same score for the key
ThreeTied ==
  /\ Cardinality(Members(nodes)) = 3
  /\ \A a, b \in Members(nodes) : hash(ClientKey, a) = hash(ClientKey, b)

\* C40: with R = W = 2 and every replica answering, a Get of the key returns
\* the value of the Set that succeeded before one new node was added.
C40_ReadSurvivesJoin == ReadAfterJoin

\* the same when the nodes the Client had before do not all three tie
C40_HoldsWithoutTripleTie == ~ThreeTied => ReadAfterJoin

\* the new node has the best score for the key, holds nothing, and the Get
\* returned the value
C40_Witness ==
  /\ scene.step = "done"
  /\ scene.x = NewNode
  /\ \A id \in Members(nodes) : hash(ClientKey, NewNode) > hash(ClientKey, id)
  /\ scene.get1 = Got("v1", "")

====
